---- MODULE Spec2Model ----
(***************************************************************************)
(* A model of the eoreader band pipeline:                                  *)
(*   - the spectral index functions of eoreader/bands/index.py,            *)
(*   - the Sentinel-2 invalid-pixel and cloud masks of                     *)
(*     eoreader/products/optical/s2_product.py,                            *)
(*   - the Sentinel-2 product object: construction, cached metadata        *)
(*     lookups, band paths, reflectance conversion, crs and datetime,      *)
(*   - the Sentinel-2 vector mask reader and its temporary directory, the  *)
(*     condensed name, and the geocoding of L2Ap bands in _read_band,      *)
(*   - the crs and datetime of eoreader/products/optical/s3_product.py,    *)
(*   - the metadata, default resolution and extent of                      *)
(*     eoreader/products/sar/rs2_product.py.                               *)
(* Arrays are handled pixel by pixel, as numpy and xarray do for the       *)
(* elementwise operators the code uses.                                    *)
(***************************************************************************)
EXTENDS Integers, Sequences, FiniteSets, TLC

VARIABLES
    pc,      \* "ready": inputs chosen, no call made; "done": the call returned or raised
    idx,     \* index.py: name of the index function called
    bands,   \* index.py: the `bands` dict given to it, band name -> pixel value
    out,     \* index.py: what the call produced (a named pixel value, or an exception)
    prod,    \* S2Product: _processing_baseline and the mask files of the product
    band_arr,\* S2Product: the band array handed to the mask operations
    ret,     \* S2Product: what the last operation passed on, or the exception it raised
    wanted,  \* S2Product: the `bands` list given to _open_clouds
    def_nodata, \* S2Product: np.isnan(def_band) of the default band, 1 where it is nodata
    log,     \* the warnings written to LOGGER, in order
    self,    \* a product instance: the files of the product and the attributes of the object
    res      \* what the last call of a method of `self` returned or raised

(***************************************************************************)
(* Floating point pixel values.  A finite value is an exact fraction n/d   *)
(* in lowest terms; the IEEE special values are NaN and the infinities.    *)
(* NaN is what an invalid (nodata) pixel of a float xarray band holds.     *)
(* A KeyError raised while the operands are evaluated travels as k="raise".*)
(***************************************************************************)
RECURSIVE GCD(_, _)
GCD(a, b) == IF b = 0 THEN a ELSE GCD(b, a % b)

Abs(x) == IF x < 0 THEN -x ELSE x

Sign(x) == IF x < 0 THEN -1 ELSE IF x > 0 THEN 1 ELSE 0

Num(n, d) ==
    LET s == IF d < 0 THEN -1 ELSE 1
        g == GCD(Abs(n), Abs(d))
    IN  [k |-> "num", n |-> (s * n) \div g, d |-> (s * d) \div g]

NaN == [k |-> "nan", n |-> 0, d |-> 0]

Inf(s) == [k |-> "inf", n |-> s, d |-> 0]

Raise(exc) == [k |-> exc, n |-> 0, d |-> 0]

IsRaise(v) == v.k \notin {"num", "nan", "inf"}

IsFinite(v) == v.k = "num"

IsZero(v) == v.k = "num" /\ v.n = 0

\* the first operand that raised wins: Python evaluates operands left to right
Lift(a, b, r) == IF IsRaise(a) THEN a ELSE IF IsRaise(b) THEN b ELSE r

Neg(a) ==
    IF IsRaise(a) \/ a.k = "nan" THEN a
    ELSE IF a.k = "inf" THEN Inf(-a.n)
    ELSE Num(-a.n, a.d)

Add(a, b) ==
    Lift(a, b,
        IF a.k = "nan" \/ b.k = "nan" THEN NaN
        ELSE IF a.k = "inf" /\ b.k = "inf" THEN (IF a.n = b.n THEN a ELSE NaN)
        ELSE IF a.k = "inf" THEN a
        ELSE IF b.k = "inf" THEN b
        ELSE LET l == (a.d \div GCD(a.d, b.d)) * b.d
             IN  Num(a.n * (l \div a.d) + b.n * (l \div b.d), l))

Sub(a, b) == Add(a, Neg(b))

Mul(a, b) ==
    Lift(a, b,
        IF a.k = "nan" \/ b.k = "nan" THEN NaN
        ELSE IF a.k = "inf" \/ b.k = "inf"
             THEN (IF IsZero(a) \/ IsZero(b) THEN NaN ELSE Inf(Sign(a.n) * Sign(b.n)))
        ELSE LET g1 == GCD(Abs(a.n), b.d)
                 g2 == GCD(Abs(b.n), a.d)
             IN  Num((a.n \div g1) * (b.n \div g2), (a.d \div g2) * (b.d \div g1)))

\* np.divide under np.seterr(divide="ignore", invalid="ignore"): the IEEE
\* quotient, silently.  x/0 is an infinity of x's sign, 0/0 is NaN.
Divide(a, b) ==
    Lift(a, b,
        IF a.k = "nan" \/ b.k = "nan" THEN NaN
        ELSE IF a.k = "inf" /\ b.k = "inf" THEN NaN
        ELSE IF a.k = "inf" THEN Inf(IF b.n < 0 THEN -a.n ELSE a.n)
        ELSE IF b.k = "inf" THEN Num(0, 1)
        ELSE IF b.n = 0 THEN (IF a.n = 0 THEN NaN ELSE Inf(Sign(a.n)))
        ELSE LET g1 == GCD(Abs(a.n), Abs(b.n))
                 g2 == GCD(a.d, b.d)
             IN  Num((a.n \div g1) * (b.d \div g2), (a.d \div g2) * (b.n \div g1)))

Sq(a) == Mul(a, a)

\* a float literal of the source, as the fraction it denotes
F(n, d) == Num(n, d)

(***************************************************************************)
(* eoreader/bands/index.py                                                 *)
(***************************************************************************)
\* a lookup that falls back on an invalid pixel, as bands.get(obn.X, nan) would
GetOrNaN(b, name) == IF name \in DOMAIN b THEN b[name] ELSE NaN

\* a lookup bands[obn.X] in a Python dict: the value, or KeyError
Get(b, name) == IF name \in DOMAIN b THEN b[name] ELSE Raise("KeyError")

norm_diff(band_1, band_2) == Divide(Sub(band_1, band_2), Add(band_1, band_2))

RGI(b) == Divide(Get(b, "RED"), Get(b, "GREEN"))

NDVI(b) == Divide(Get(b, "NIR"), Get(b, "RED"))

TCBRI(b) ==
    Add(Add(Add(Add(Add(
        Mul(F(3037, 10000), Get(b, "BLUE")),
        Mul(F(2793, 10000), Get(b, "GREEN"))),
        Mul(F(4743, 10000), Get(b, "RED"))),
        Mul(F(5585, 10000), Get(b, "NIR"))),
        Mul(F(5082, 10000), Get(b, "SWIR_1"))),
        Mul(F(1863, 10000), Get(b, "SWIR_2")))

TCGRE(b) ==
    Sub(Add(Add(Sub(Sub(
        Mul(F(-2848, 10000), Get(b, "BLUE")),
        Mul(F(2435, 10000), Get(b, "GREEN"))),
        Mul(F(5436, 10000), Get(b, "RED"))),
        Mul(F(7243, 10000), Get(b, "NIR"))),
        Mul(F(840, 10000), Get(b, "SWIR_1"))),
        Mul(F(1800, 10000), Get(b, "SWIR_2")))

TCWET(b) ==
    Sub(Sub(Add(Add(Add(
        Mul(F(1509, 10000), Get(b, "BLUE")),
        Mul(F(1973, 10000), Get(b, "GREEN"))),
        Mul(F(3279, 10000), Get(b, "RED"))),
        Mul(F(3406, 10000), Get(b, "NIR"))),
        Mul(F(7112, 10000), Get(b, "SWIR_1"))),
        Mul(F(4572, 10000), Get(b, "SWIR_2")))

NDRE2(b) == norm_diff(Get(b, "NIR"), Get(b, "VRE_1"))

NDRE3(b) == norm_diff(Get(b, "NIR"), Get(b, "VRE_2"))

GLI(b) ==
    Divide(
        Mul(F(2, 1), Sub(Sub(Get(b, "GREEN"), Get(b, "RED")), Get(b, "BLUE"))),
        Mul(F(2, 1), Add(Add(Get(b, "GREEN"), Get(b, "RED")), Get(b, "BLUE"))))

GNDVI(b) == norm_diff(Get(b, "NIR"), Get(b, "GREEN"))

RI(b) == norm_diff(Get(b, "VRE_1"), Get(b, "GREEN"))

NDGRI(b) == norm_diff(Get(b, "GREEN"), Get(b, "RED"))

CIG(b) == Sub(Divide(Get(b, "NIR"), Get(b, "GREEN")), F(1, 1))

NDMI(b) == norm_diff(Get(b, "NIR"), Get(b, "SWIR_1"))

DSWI(b) ==
    Divide(Add(Get(b, "NIR"), Get(b, "GREEN")), Add(Get(b, "SWIR_1"), Get(b, "RED")))

SRSWIR(b) == Divide(Get(b, "SWIR_1"), Get(b, "SWIR_2"))

RDI(b) == Divide(Get(b, "SWIR_2"), Get(b, "NARROW_NIR"))

NDWI(b) == norm_diff(Get(b, "GREEN"), Get(b, "NIR"))

BAI(b) ==
    Divide(F(1, 1),
           Add(Sq(Sub(F(1, 10), Get(b, "RED"))), Sq(Sub(F(6, 100), Get(b, "NIR")))))

NBR(b) == norm_diff(Get(b, "NARROW_NIR"), Get(b, "SWIR_2"))

MNDWI(b) == norm_diff(Get(b, "GREEN"), Get(b, "SWIR_1"))

AWEInsh(b) ==
    Sub(Mul(F(4, 1), Sub(Get(b, "GREEN"), Get(b, "SWIR_1"))),
        Add(Mul(F(25, 100), Get(b, "NIR")), Mul(F(275, 100), Get(b, "SWIR_2"))))

AWEIsh(b) ==
    Sub(Sub(Add(Get(b, "BLUE"), Mul(F(25, 10), Get(b, "GREEN"))),
            Mul(F(15, 10), Add(Get(b, "NIR"), Get(b, "SWIR_1")))),
        Mul(F(25, 100), Get(b, "SWIR_2")))

WI(b) ==
    Sub(Sub(Sub(Add(Add(
        F(17204, 10000),
        Mul(F(171, 1), Get(b, "GREEN"))),
        Mul(F(3, 1), Get(b, "RED"))),
        Mul(F(70, 1), Get(b, "NIR"))),
        Mul(F(45, 1), Get(b, "SWIR_1"))),
        Mul(F(71, 1), Get(b, "SWIR_2")))

AFRI_1_6(b) == norm_diff(Get(b, "NIR"), Mul(F(66, 100), Get(b, "SWIR_1")))

AFRI_2_1(b) == norm_diff(Get(b, "NIR"), Mul(F(5, 10), Get(b, "SWIR_2")))

BSI(b) ==
    norm_diff(Add(Get(b, "RED"), Get(b, "SWIR_1")), Add(Get(b, "NIR"), Get(b, "BLUE")))

\* get_all_index_names: the functions of the module whose name starts upper case
IndexNames ==
    {"RGI", "NDVI", "TCBRI", "TCGRE", "TCWET", "NDRE2", "NDRE3", "GLI", "GNDVI",
     "RI", "NDGRI", "CIG", "NDMI", "DSWI", "SRSWIR", "RDI", "NDWI", "BAI", "NBR",
     "MNDWI", "AWEInsh", "AWEIsh", "WI", "AFRI_1_6", "AFRI_2_1", "BSI"}

\* the index function of that name, applied
Call(name, b) ==
    CASE name = "RGI" -> RGI(b)
      [] name = "NDVI" -> NDVI(b)
      [] name = "TCBRI" -> TCBRI(b)
      [] name = "TCGRE" -> TCGRE(b)
      [] name = "TCWET" -> TCWET(b)
      [] name = "NDRE2" -> NDRE2(b)
      [] name = "NDRE3" -> NDRE3(b)
      [] name = "GLI" -> GLI(b)
      [] name = "GNDVI" -> GNDVI(b)
      [] name = "RI" -> RI(b)
      [] name = "NDGRI" -> NDGRI(b)
      [] name = "CIG" -> CIG(b)
      [] name = "NDMI" -> NDMI(b)
      [] name = "DSWI" -> DSWI(b)
      [] name = "SRSWIR" -> SRSWIR(b)
      [] name = "RDI" -> RDI(b)
      [] name = "NDWI" -> NDWI(b)
      [] name = "BAI" -> BAI(b)
      [] name = "NBR" -> NBR(b)
      [] name = "MNDWI" -> MNDWI(b)
      [] name = "AWEInsh" -> AWEInsh(b)
      [] name = "AWEIsh" -> AWEIsh(b)
      [] name = "WI" -> WI(b)
      [] name = "AFRI_1_6" -> AFRI_1_6(b)
      [] name = "AFRI_2_1" -> AFRI_2_1(b)
      [] name = "BSI" -> BSI(b)

\* get_needed_bands: every obn.<NAME> found in the source text of the function
get_needed_bands(name) ==
    CASE name \in {"RGI", "NDGRI"} -> {"RED", "GREEN"}
      [] name = "NDVI" -> {"NIR", "RED"}
      [] name \in {"TCBRI", "TCGRE", "TCWET"} ->
            {"BLUE", "GREEN", "RED", "NIR", "SWIR_1", "SWIR_2"}
      [] name = "NDRE2" -> {"NIR", "VRE_1"}
      [] name = "NDRE3" -> {"NIR", "VRE_2"}
      [] name = "GLI" -> {"GREEN", "RED", "BLUE"}
      [] name \in {"GNDVI", "CIG", "NDWI"} -> {"NIR", "GREEN"}
      [] name = "RI" -> {"VRE_1", "GREEN"}
      [] name \in {"NDMI", "AFRI_1_6"} -> {"NIR", "SWIR_1"}
      [] name = "DSWI" -> {"NIR", "GREEN", "SWIR_1", "RED"}
      [] name = "SRSWIR" -> {"SWIR_1", "SWIR_2"}
      [] name \in {"RDI", "NBR"} -> {"SWIR_2", "NARROW_NIR"}
      [] name = "BAI" -> {"RED", "NIR"}
      [] name = "MNDWI" -> {"GREEN", "SWIR_1"}
      [] name = "AWEInsh" -> {"GREEN", "SWIR_1", "NIR", "SWIR_2"}
      [] name = "AWEIsh" -> {"BLUE", "GREEN", "NIR", "SWIR_1", "SWIR_2"}
      [] name = "WI" -> {"GREEN", "RED", "NIR", "SWIR_1", "SWIR_2"}
      [] name = "AFRI_2_1" -> {"NIR", "SWIR_2"}
      [] name = "BSI" -> {"RED", "SWIR_1", "NIR", "BLUE"}

\* _idx_fct: the wrapper every index function is decorated with
idx_fct_wrapper(name, b) ==
    LET o == Call(name, b)
    IN  IF IsRaise(o) THEN [raised |-> o.k, name |-> "", data |-> NaN]
        ELSE [raised |-> "", name |-> name, data |-> o]

(***************************************************************************)
(* eoreader/products/optical/s2_product.py: the invalid-pixel masks.       *)
(* The band is a grid of Height x Width pixels, a pixel is <<row, col>>.   *)
(* A vector layer (GML) is a set of features; a feature carries its gml_id,*)
(* its maskType and px, the pixels features.rasterize burns for it.        *)
(* A layer whose file is not in the product is not present.                *)
(***************************************************************************)
Height == 2

Width == 2

Pixels == (0 .. Height - 1) \X (0 .. Width - 1)

\* self._mask_true / self._mask_false: the values written for an invalid and
\* for a valid pixel, the same as line 935 writes with np.where(..., 1, 0)
MaskTrue == 1

MaskFalse == 0

\* _post_init: N0213 -> 02.13; the baseline is kept here in hundredths
ProcessingBaseline(field) == field

IsLt40(baseline) == baseline < 400

\* features.rasterize(rows.geometry, fill=fill, default_value=default_value)
Rasterize(rows, fill, default_value) ==
    [p \in Pixels |-> IF \E f \in rows : p \in f.px THEN default_value ELSE fill]

\* mask[index] = value, index an array of integers (dtype uint8): numpy takes
\* the integers as positions along the first axis, so the rows whose number
\* occurs in index are assigned, whole; a number past the last row raises
IndexAssign(mask, index, value) ==
    LET rows == {index[p] : p \in Pixels}
    IN  IF \E r \in rows : r >= Height
        THEN [raised |-> "IndexError", mask |-> mask]
        ELSE [raised |-> "",
              mask |-> [p \in Pixels |-> IF p[1] \in rows THEN value ELSE mask[p]]]

\* a reading that takes a mask file that is not found for an empty layer
open_mask_lt_4_0_lenient(p, mask_id) == [raised |-> "", rows |-> p.gml[mask_id].rows]

\* _open_mask_lt_4_0: the layer as a GeoDataFrame; a mask file that is not
\* found (IndexError in the archive, FileNotFoundError in the folder) and a
\* failed vector read are re-raised as InvalidProductError
open_mask_lt_4_0(p, mask_id) ==
    IF p.gml[mask_id].present
    THEN [raised |-> "", rows |-> p.gml[mask_id].rows]
    ELSE [raised |-> "InvalidProductError", rows |-> {}]

EmptyDetfooWarning == "Empty detector footprint (DETFOO) vector. Nodata will be set where the pixels are null."

NoMask == [p \in Pixels |-> MaskFalse]

Failed(exc, lg) == [raised |-> exc, mask |-> NoMask, det |-> NoMask, log |-> lg]

\* a fallback that keeps the null pixels and masks the others
FootprintMaskInverted(nodata_det, arr) ==
    IF Cardinality(nodata_det) > 0
    THEN [mask |-> Rasterize(nodata_det, MaskTrue, MaskFalse), log |-> <<>>]
    ELSE [mask |-> [p \in Pixels |-> IF arr[p] = 0 THEN 0 ELSE 1],
          log |-> <<EmptyDetfooWarning>>]

\* lines 912-935 and 1032-1055: the mask of the pixels outside the detectors
FootprintMask(nodata_det, arr) ==
    IF Cardinality(nodata_det) > 0
    THEN [mask |-> Rasterize(nodata_det, MaskTrue, MaskFalse), log |-> <<>>]
    ELSE [mask |-> [p \in Pixels |-> IF arr[p] = 0 THEN 1 ELSE 0],
          log |-> <<EmptyDetfooWarning>>]

\* DataFrame.append(other) builds and returns a new frame and leaves the
\* frame it is called on as it was: the statement `nodata_pix.append(x)`
\* drops the result
AppendDropped(frame, other) == frame

\* lines 937-967: the auxiliary layers merged into the footprint mask
MergeAuxiliary(det, nodata_rows, defect_rows, satura_rows, tecqua_rows) ==
    LET nodata_pix_0 == IF Cardinality(nodata_rows) > 0
                        THEN {f \in nodata_rows : f.gml_id = "QT_NODATA_PIXELS"}
                        ELSE nodata_rows
        nodata_pix_1 == AppendDropped(nodata_pix_0, defect_rows)
        nodata_pix_2 == AppendDropped(nodata_pix_1, satura_rows)
        tecqua == IF Cardinality(tecqua_rows) > 0
                  THEN {f \in tecqua_rows : f.gml_id \in {"MSI_LOST", "MSI_DEG"}}
                  ELSE tecqua_rows
        nodata_pix == AppendDropped(nodata_pix_2, tecqua)
    IN  IF Cardinality(nodata_pix) > 0
        THEN LET mask_pix == Rasterize(nodata_pix, MaskFalse, MaskTrue)
                 set == IndexAssign(det.mask, mask_pix, MaskTrue)
             IN  [raised |-> set.raised, mask |-> set.mask, det |-> det.mask, log |-> det.log]
        ELSE [raised |-> "", mask |-> det.mask, det |-> det.mask, log |-> det.log]

manage_invalid_pixels_lt_4_0(p, arr) ==
    LET nodata_det == open_mask_lt_4_0(p, "DETFOO")
        nodata == open_mask_lt_4_0(p, "NODATA")
        defect == open_mask_lt_4_0(p, "DEFECT")
        satura == open_mask_lt_4_0(p, "SATURA")
        tecqua == open_mask_lt_4_0(p, "TECQUA")
        det == FootprintMask(nodata_det.rows, arr)
    IN  IF nodata_det.raised # "" THEN Failed(nodata_det.raised, <<>>)
        ELSE IF nodata.raised # "" THEN Failed(nodata.raised, det.log)
        ELSE IF defect.raised # "" THEN Failed(defect.raised, det.log)
        ELSE IF satura.raised # "" THEN Failed(satura.raised, det.log)
        ELSE IF tecqua.raised # "" THEN Failed(tecqua.raised, det.log)
        ELSE MergeAuxiliary(det, nodata.rows, defect.rows, satura.rows, tecqua.rows)

manage_nodata_lt_4_0(p, arr) ==
    LET nodata_det == open_mask_lt_4_0(p, "DETFOO")
        det == FootprintMask(nodata_det.rows, arr)
    IN  IF nodata_det.raised # "" THEN Failed(nodata_det.raised, <<>>)
        ELSE [raised |-> "", mask |-> det.mask, det |-> det.mask, log |-> det.log]

\* _open_mask_gt_4_0: the raster of the mask; a mask file that is not in the
\* product is not found by files.get_file_in_dir
open_mask_gt_4_0(p, mask_id) ==
    IF p.jp2[mask_id].present
    THEN [raised |-> "", data |-> p.jp2[mask_id].data]
    ELSE [raised |-> "FileNotFoundError", data |-> <<>>]

\* a reading that takes plane 7 for the saturated pixels
QualityIndexesOffByOne == <<3, 4, 5, 6, 7>>

\* the planes of MSK_QUALIT read by _manage_invalid_pixels_gt_4_0:
\* MSI_LOST (3), MSI_DEG (4), defective (5), nodata (6), saturated (8)
QualityIndexes == <<3, 4, 5, 6, 8>>

RECURSIVE SumPlanes(_, _, _)
SumPlanes(quality, indexes, p) ==
    IF indexes = <<>> THEN 0
    ELSE quality[<<Head(indexes), p>>] + SumPlanes(quality, Tail(indexes), p)

\* np.where(footprint == 0, 1, 0): 0 is the value outside every detector
OutsideDetectors(footprint) == [p \in Pixels |-> IF footprint[p] = 0 THEN 1 ELSE 0]

manage_invalid_pixels_gt_4_0(p, arr) ==
    LET footprint == open_mask_gt_4_0(p, "DETFOO")
        quality == open_mask_gt_4_0(p, "QUALIT")
        nodata == OutsideDetectors(footprint.data)
    IN  IF footprint.raised # "" THEN Failed(footprint.raised, <<>>)
        ELSE IF quality.raised # "" THEN Failed(quality.raised, <<>>)
        ELSE [raised |-> "",
              mask |-> [q \in Pixels |->
                          (nodata[q] + SumPlanes(quality.data, QualityIndexes, q)) > 0],
              det |-> nodata,
              log |-> <<>>]

manage_nodata_gt_4_0(p, arr) ==
    LET footprint == open_mask_gt_4_0(p, "DETFOO")
    IN  IF footprint.raised # "" THEN Failed(footprint.raised, <<>>)
        ELSE [raised |-> "", mask |-> OutsideDetectors(footprint.data),
              det |-> OutsideDetectors(footprint.data), log |-> <<>>]

\* a footprint that takes the vector masks up to the baseline 04.00 included
footprint_le_4_0(p) ==
    IF p.baseline <= 400
    THEN LET det_footprint == open_mask_lt_4_0(p, "DETFOO")
         IN  [raised |-> det_footprint.raised,
              value |-> UNION {f.px : f \in det_footprint.rows}]
    ELSE LET det_footprint == open_mask_gt_4_0(p, "DETFOO")
         IN  [raised |-> det_footprint.raised,
              value |-> IF det_footprint.raised # "" THEN {}
                        ELSE {q \in Pixels : det_footprint.data[q] # 0}]

\* S2Product.footprint: the convex hull of the detector footprints, given
\* here by the pixels the hull is taken of (the polygons of the DETFOO
\* vector, the pixels of the DETFOO raster that are not 0)
footprint(p) ==
    IF IsLt40(p.baseline)
    THEN LET det_footprint == open_mask_lt_4_0(p, "DETFOO")
         IN  [raised |-> det_footprint.raised,
              value |-> UNION {f.px : f \in det_footprint.rows}]
    ELSE LET det_footprint == open_mask_gt_4_0(p, "DETFOO")
         IN  [raised |-> det_footprint.raised,
              value |-> IF det_footprint.raised # "" THEN {}
                        ELSE {q \in Pixels : det_footprint.data[q] # 0}]


\* _manage_invalid_pixels / _manage_nodata: the strategy is picked by the baseline
manage_invalid_pixels(p, arr) ==
    IF IsLt40(p.baseline)
    THEN manage_invalid_pixels_lt_4_0(p, arr)
    ELSE manage_invalid_pixels_gt_4_0(p, arr)

manage_nodata(p, arr) ==
    IF IsLt40(p.baseline) THEN manage_nodata_lt_4_0(p, arr) ELSE manage_nodata_gt_4_0(p, arr)

\* the pixels a mask handed to _set_nodata_mask flags: the non-zero ones of a
\* uint8 mask, the True ones of a boolean mask
FlaggedInt(mask) == {q \in Pixels : mask[q] # 0}

FlaggedBool(mask) == {q \in Pixels : mask[q]}

(***************************************************************************)
(* eoreader/products/optical/s2_product.py: the cloud bands.               *)
(***************************************************************************)
CloudBands == {"ALL_CLOUDS", "CIRRUS", "CLOUDS", "RAW_CLOUDS", "SHADOWS"}

has_cloud_band(band) == IF band = "SHADOWS" THEN FALSE ELSE TRUE

\* OpticalProduct._create_mask: the rasterized condition, with the nodata of
\* the default band carried over
MaskNodata == 255

create_mask(cond, nodata) ==
    [p \in Pixels |-> IF nodata[p] = 1 THEN MaskNodata ELSE cond[p]]

\* _rasterize: an empty frame gives a mask of _mask_false
rasterize(geometry, nodata) ==
    LET cond == IF geometry # {}
                THEN Rasterize(geometry, MaskFalse, MaskTrue)
                ELSE [p \in Pixels |-> MaskFalse]
    IN  create_mask(cond, nodata)

\* cloud_vec[cloud_vec.maskType == t]; the frame of an empty GML has no
\* maskType column, the AttributeError is caught and an empty frame is used
ByMaskType(cloud_vec, t) ==
    IF cloud_vec = {} THEN {} ELSE {f \in cloud_vec : f.maskType = t}

\* a loop body that answers a band it does not know with an array of zeros
cloud_lt_4_0_zeros(band, cloud_vec, nodata) ==
    CASE band = "ALL_CLOUDS" -> [raised |-> "", cloud |-> rasterize(cloud_vec, nodata)]
      [] band = "CIRRUS" ->
            [raised |-> "", cloud |-> rasterize(ByMaskType(cloud_vec, "CIRRUS"), nodata)]
      [] band = "CLOUDS" ->
            [raised |-> "", cloud |-> rasterize(ByMaskType(cloud_vec, "OPAQUE"), nodata)]
      [] band = "RAW_CLOUDS" -> [raised |-> "", cloud |-> rasterize(cloud_vec, nodata)]
      [] OTHER -> [raised |-> "", cloud |-> rasterize({}, nodata)]

\* the body of the loop of _open_clouds_lt_4_0 for one band
cloud_lt_4_0(band, cloud_vec, nodata) ==
    CASE band = "ALL_CLOUDS" -> [raised |-> "", cloud |-> rasterize(cloud_vec, nodata)]
      [] band = "CIRRUS" ->
            [raised |-> "", cloud |-> rasterize(ByMaskType(cloud_vec, "CIRRUS"), nodata)]
      [] band = "CLOUDS" ->
            [raised |-> "", cloud |-> rasterize(ByMaskType(cloud_vec, "OPAQUE"), nodata)]
      [] band = "RAW_CLOUDS" -> [raised |-> "", cloud |-> rasterize(cloud_vec, nodata)]
      [] OTHER -> [raised |-> "InvalidTypeError", cloud |-> <<>>]

RECURSIVE BitOr(_, _)
BitOr(a, b) ==
    IF a = 0 THEN b
    ELSE IF b = 0 THEN a
    ELSE 2 * BitOr(a \div 2, b \div 2) + (IF a % 2 = 1 \/ b % 2 = 1 THEN 1 ELSE 0)

\* cloud_vec[i, :, :] of the MSK_CLASSI raster; plane i is band i + 1
Plane(cloud_vec, i) == [p \in Pixels |-> cloud_vec[<<i + 1, p>>]]

\* a loop body whose ALL_CLOUDS is the opaque plane alone
cloud_gt_4_0_opaque(band, cloud_vec) ==
    CASE band \in {"ALL_CLOUDS", "CLOUDS"} -> [raised |-> "", cloud |-> Plane(cloud_vec, 0)]
      [] band = "CIRRUS" -> [raised |-> "", cloud |-> Plane(cloud_vec, 1)]
      [] band = "RAW_CLOUDS" -> [raised |-> "", cloud |-> cloud_vec]
      [] OTHER -> [raised |-> "InvalidTypeError", cloud |-> <<>>]

\* the body of the loop of _open_clouds_gt_4_0 for one band
cloud_gt_4_0(band, cloud_vec) ==
    CASE band = "ALL_CLOUDS" ->
            [raised |-> "",
             cloud |-> [p \in Pixels |->
                           BitOr(Plane(cloud_vec, 0)[p], Plane(cloud_vec, 1)[p])]]
      [] band = "CIRRUS" -> [raised |-> "", cloud |-> Plane(cloud_vec, 1)]
      [] band = "CLOUDS" -> [raised |-> "", cloud |-> Plane(cloud_vec, 0)]
      [] band = "RAW_CLOUDS" -> [raised |-> "", cloud |-> cloud_vec]
      [] OTHER -> [raised |-> "InvalidTypeError", cloud |-> <<>>]

\* the loop over `bands`: band_dict grows band by band; an exception leaves
\* the loop and the function, and band_dict with them
RECURSIVE CloudLoop(_, _, _, _, _)
CloudLoop(p, todo, cloud_vec, nodata, band_dict) ==
    IF todo = <<>> THEN [raised |-> "", band_dict |-> band_dict]
    ELSE LET band == Head(todo)
             c == IF IsLt40(p.baseline)
                  THEN cloud_lt_4_0(band, cloud_vec, nodata)
                  ELSE cloud_gt_4_0(band, cloud_vec)
         IN  IF c.raised # "" THEN [raised |-> c.raised, band_dict |-> <<>>]
             ELSE CloudLoop(p, Tail(todo), cloud_vec, nodata,
                            [b \in DOMAIN band_dict \cup {band} |->
                                IF b = band THEN c.cloud ELSE band_dict[b]])

open_clouds_lt_4_0(p, band_list, nodata) ==
    IF band_list = <<>> THEN [raised |-> "", band_dict |-> <<>>]
    ELSE LET cloud_vec == open_mask_lt_4_0(p, "CLOUDS")
         IN  IF cloud_vec.raised # "" THEN [raised |-> cloud_vec.raised, band_dict |-> <<>>]
             ELSE CloudLoop(p, band_list, cloud_vec.rows, nodata, <<>>)

open_clouds_gt_4_0(p, band_list) ==
    IF band_list = <<>> THEN [raised |-> "", band_dict |-> <<>>]
    ELSE LET cloud_vec == open_mask_gt_4_0(p, "CLASSI")
         IN  IF cloud_vec.raised # "" THEN [raised |-> cloud_vec.raised, band_dict |-> <<>>]
             ELSE CloudLoop(p, band_list, cloud_vec.data, <<>>, <<>>)

open_clouds(p, band_list, nodata) ==
    IF IsLt40(p.baseline)
    THEN open_clouds_lt_4_0(p, band_list, nodata)
    ELSE open_clouds_gt_4_0(p, band_list)

(***************************************************************************)
(* The calls made on the index module.  A call is an index name and a      *)
(* `bands` dict; the dict may lack bands.  Reflectances are drawn from a   *)
(* few values that make every denominator of the module vanish for some    *)
(* input: 0, 0.1, -0.1 (a reflectance below the radiometric offset) and    *)
(* 0.06, with NaN for an invalid pixel.                                    *)
(***************************************************************************)
Reflectances == {NaN, Num(0, 1), Num(1, 10), Num(-1, 10), Num(3, 50)}

BandDicts(names) == UNION {[S -> Reflectances] : S \in SUBSET names}

NoCall == [raised |-> "", name |-> "", data |-> NaN]

\* det is the mask after the detector footprint step, before the auxiliary layers
NoRet ==
    [op |-> "", raised |-> "", mask |-> NoMask, det |-> NoMask, invalid |-> {},
     band_dict |-> <<>>]

(***************************************************************************)
(* The Sentinel-2 products.  A product of baseline < 4.0 holds GML masks,  *)
(* one of baseline >= 4.0 holds JP2 masks.                                 *)
(***************************************************************************)
\* N0209, N0399, N0400, N0509
Baselines == {209, 399, 400, 509}

\* how many cells of a raster mask, and how many cloud polygons, are set at most
MaxFlags == 2

\* how many bands a call of _open_clouds asks for at most
MaxBands == 3

\* the pixels the auxiliary polygons and raster flags are put on
Probes == {<<0, 0>>, <<Height - 1, Width - 1>>}

\* the detectors cover the grid, or all of it but the last column
FootprintShapes == {Pixels, {p \in Pixels : p[2] < Width - 1}}

Feature(gml_id, maskType, px) == [gml_id |-> gml_id, maskType |-> maskType, px |-> px]

Absent == [present |-> FALSE, rows |-> {}]

Layer(rows) == [present |-> TRUE, rows |-> rows]

\* a layer: its file is not there, or it is empty, or it holds one polygon
Layers(gml_ids, shapes) ==
    {Absent, Layer({})} \cup {Layer({Feature(i, "", px)}) : i \in gml_ids, px \in shapes}

ProbeShapes == {{q} : q \in Probes}

CloudFeatures == {Feature("", t, {q}) : t \in {"OPAQUE", "CIRRUS"}, q \in Probes}

CloudLayers ==
    {Absent} \cup {Layer(R) : R \in {R \in SUBSET CloudFeatures : Cardinality(R) <= MaxFlags}}

NoJp2 == [m \in {"DETFOO", "QUALIT", "CLASSI"} |-> [present |-> FALSE, data |-> <<>>]]

NoGml == [m \in {"DETFOO", "NODATA", "DEFECT", "SATURA", "TECQUA", "CLOUDS"} |-> Absent]

Gml(detfoo, nodata, defect, satura, tecqua, clouds) ==
    [m \in DOMAIN NoGml |->
        CASE m = "DETFOO" -> detfoo
          [] m = "NODATA" -> nodata
          [] m = "DEFECT" -> defect
          [] m = "SATURA" -> satura
          [] m = "TECQUA" -> tecqua
          [] m = "CLOUDS" -> clouds]

\* a raster mask of `planes` bands with the cells of `cells` set to 1
Raster(planes, cells) ==
    [present |-> TRUE,
     data |-> [c \in (1 .. planes) \X Pixels |-> IF c \in cells THEN 1 ELSE 0]]

Rasters(planes) ==
    {Raster(planes, cells) :
        cells \in {C \in SUBSET ((1 .. planes) \X Probes) : Cardinality(C) <= MaxFlags}}

\* MSK_DETFOO: the number of the detector that saw the pixel, 0 outside
FootprintRaster(shape) ==
    [present |-> TRUE, data |-> [p \in Pixels |-> IF p \in shape THEN 1 ELSE 0]]

\* MSK_QUALIT holds 8 planes, MSK_CLASSI 3 (opaque clouds, cirrus, snow)
QualitPlanes == 8

ClassiPlanes == 3

Jp2(detfoo, qualit, classi) ==
    [m \in DOMAIN NoJp2 |->
        CASE m = "DETFOO" -> detfoo
          [] m = "QUALIT" -> qualit
          [] m = "CLASSI" -> classi]

NoProduct == [baseline |-> 0, gml |-> NoGml, jp2 |-> NoJp2]

\* the products the mask operations are run on
MaskProducts ==
    {[baseline |-> ProcessingBaseline(n), gml |-> g, jp2 |-> NoJp2] :
        n \in {b \in Baselines : IsLt40(b)},
        g \in {Gml(d, nd, df, sa, tq, Layer({})) :
                 d \in Layers({"detector_footprint"}, FootprintShapes),
                 nd \in Layers({"QT_NODATA_PIXELS", "QT_PARTIALLY_CORRECTED_PIXELS"}, ProbeShapes),
                 df \in Layers({"QT_DEFECTIVE_PIXELS"}, ProbeShapes),
                 sa \in Layers({"QT_SATURATED_PIXELS"}, ProbeShapes),
                 tq \in Layers({"MSI_LOST", "MSI_DEG", "ANC_LOST"}, ProbeShapes)}}
    \cup
    {[baseline |-> ProcessingBaseline(n), gml |-> NoGml, jp2 |-> j] :
        n \in {b \in Baselines : ~IsLt40(b)},
        j \in {Jp2(FootprintRaster(sh), q, Raster(ClassiPlanes, {})) :
                 sh \in FootprintShapes, q \in Rasters(QualitPlanes)}}

\* the products the cloud bands are opened on
CloudProducts ==
    {[baseline |-> ProcessingBaseline(n),
      gml |-> Gml(Layer({Feature("detector_footprint", "", Pixels)}),
                  Layer({}), Layer({}), Layer({}), Layer({}), c),
      jp2 |-> NoJp2] :
        n \in {b \in Baselines : IsLt40(b)}, c \in CloudLayers}
    \cup
    {[baseline |-> ProcessingBaseline(n), gml |-> NoGml,
      jp2 |-> Jp2(FootprintRaster(Pixels), Raster(QualitPlanes, {}), c)] :
        n \in {b \in Baselines : ~IsLt40(b)},
        c \in Rasters(ClassiPlanes) \cup {[present |-> FALSE, data |-> <<>>]}}

\* the band arrays: no null pixel, pixel <<0, 0>> null, the last row null
BandArrays ==
    {[p \in Pixels |-> IF p \in Z THEN 0 ELSE 1] :
        Z \in {{}, {<<0, 0>>}, {p \in Pixels : p[1] = Height - 1}}}

RECURSIVE SeqsUpTo(_, _)
SeqsUpTo(S, n) ==
    IF n = 0 THEN {<<>>}
    ELSE LET shorter == SeqsUpTo(S, n - 1)
         IN  shorter \cup {Append(q, x) : q \in shorter, x \in S}

(***************************************************************************)
(* s2_product.py: the metadata of a product.  An XML text is what findtext *)
(* gives: None when the element is not in the file, else a string, which   *)
(* is a number (v) or some other word (s).                                 *)
(***************************************************************************)
NoText == [k |-> "None", v |-> Num(0, 1), s |-> ""]

Number(v) == [k |-> "number", v |-> v, s |-> ""]

Word(s) == [k |-> "word", v |-> Num(0, 1), s |-> s]

\* float(text): TypeError for None, ValueError for a string that is no number
float(text) ==
    CASE text.k = "None" -> Raise("TypeError")
      [] text.k = "word" -> Raise("ValueError")
      [] OTHER -> text.v

\* what a method did: the exception it raised or the value it returned, the
\* warnings it logged, the number of files it read, the cached readers it ran
Result(raised, value, lg, io, done) ==
    [raised |-> raised, value |-> value, log |-> lg, io |-> io, done |-> done]

None == [k |-> "None"]

\* read_mtd: the root of the tile metadata (GRANULE/*/*.xml), read once and
\* cached; InvalidProductError when the file cannot be read
read_mtd(o) ==
    IF "_read_mtd" \in DOMAIN o.memo THEN Result("", o.mtd, <<>>, 0, {})
    ELSE IF o.mtd.readable THEN Result("", o.mtd, <<>>, 1, {"_read_mtd"})
    ELSE Result("InvalidProductError", None, <<>>, 1, {})

\* read_datatake_mtd: the same for the datatake metadata (MTD_MSI*.xml)
read_datatake_mtd(o) ==
    IF "read_datatake_mtd" \in DOMAIN o.memo THEN Result("", o.datatake, <<>>, 0, {})
    ELSE IF o.datatake.readable THEN Result("", o.datatake, <<>>, 1, {"read_datatake_mtd"})
    ELSE Result("InvalidProductError", None, <<>>, 1, {})

SunAnglesWarning == "setting sun angles to (0, 0)."

Zero == Num(0, 1)

\* get_mean_sun_angles (without its cache): (azimuth, zenith)
get_mean_sun_angles(o) ==
    LET r == read_mtd(o)
        fallback == Result("", <<Zero, Zero>>, <<SunAnglesWarning>>, r.io, r.done)
    IN  IF r.raised # "" THEN fallback
        ELSE LET mean_sun_angles == r.value.Mean_Sun_Angle
             IN  IF ~mean_sun_angles.present
                 THEN Result("AttributeError", None, <<>>, r.io, r.done)
                 ELSE LET zenith_angle == float(mean_sun_angles.ZENITH_ANGLE)
                          azimuth_angle == float(mean_sun_angles.AZIMUTH_ANGLE)
                          first == Lift(zenith_angle, azimuth_angle, Zero)
                      IN  IF first.k = "TypeError" THEN fallback
                          ELSE IF IsRaise(first)
                          THEN Result(first.k, None, <<>>, r.io, r.done)
                          ELSE Result("", <<azimuth_angle, zenith_angle>>, <<>>, r.io, r.done)

CloudCoverWarning ==
    "CLOUDY_PIXEL_PERCENTAGE not found in metadata! Cloud coverage set to 0."

\* get_cloud_cover (without its cache)
get_cloud_cover(o) ==
    LET r == read_mtd(o)
        fallback == Result("", Zero, <<CloudCoverWarning>>, r.io, r.done)
    IN  IF r.raised # "" THEN fallback
        ELSE LET cc == float(r.value.CLOUDY_PIXEL_PERCENTAGE)
             IN  IF cc.k = "TypeError" THEN fallback
                 ELSE IF IsRaise(cc) THEN Result(cc.k, None, <<>>, r.io, r.done)
                 ELSE Result("", cc, <<>>, r.io, r.done)

OrbitDirection == {"ASCENDING", "DESCENDING"}

\* OrbitDirection.from_value(text): the member of that value; the method
\* relies on TypeError for None, and Enum refuses any other word with ValueError
from_value(text) ==
    IF text.k = "None" THEN "TypeError"
    ELSE IF text.k = "word" /\ text.s \in OrbitDirection THEN text.s
    ELSE "ValueError"

\* get_orbit_direction (without its cache)
get_orbit_direction(o) ==
    LET r == read_datatake_mtd(o)
        fallback == Result("", "DESCENDING", <<>>, r.io, r.done)
    IN  IF r.raised # "" THEN fallback
        ELSE LET od == from_value(r.value.SENSING_ORBIT_DIRECTION)
             IN  IF od = "TypeError" THEN fallback
                 ELSE IF od = "ValueError" THEN Result(od, None, <<>>, r.io, r.done)
                 ELSE Result("", od, <<>>, r.io, r.done)


(***************************************************************************)
(* s2_product.py: crs and get_datetime.  A string that is parsed is a      *)
(* sequence of characters; a CRS is its EPSG code.                         *)
(***************************************************************************)
Digits == <<"0", "1", "2", "3", "4", "5", "6", "7", "8", "9">>

IsDigit(c) == \E i \in 1 .. 10 : Digits[i] = c

DigitOf(c) == (CHOOSE i \in 1 .. 10 : Digits[i] = c) - 1

RECURSIVE ToInt(_)
\* int() of a sequence of digits
ToInt(cs) ==
    IF cs = <<>> THEN 0
    ELSE 10 * ToInt(SubSeq(cs, 1, Len(cs) - 1)) + DigitOf(cs[Len(cs)])

IsLeap(Y) == (Y % 4 = 0 /\ Y % 100 # 0) \/ Y % 400 = 0

DaysIn(Y, m) ==
    IF m = 2 THEN (IF IsLeap(Y) THEN 29 ELSE 28)
    ELSE IF m \in {4, 6, 9, 11} THEN 30 ELSE 31

NoDate == [k |-> "None", Y |-> 0, m |-> 0, d |-> 0, H |-> 0, M |-> 0, S |-> 0]

Date(Y, m, d, H, M, S) ==
    [k |-> "datetime", Y |-> Y, m |-> m, d |-> d, H |-> H, M |-> M, S |-> S]

BadDate == [k |-> "ValueError", Y |-> 0, m |-> 0, d |-> 0, H |-> 0, M |-> 0, S |-> 0]

\* datetime.strptime(sensing_time, "%Y%m%dT%H%M%S") of a field of 15
\* characters: the date, or ValueError when the field is not one
strptime(sensing_time) ==
    IF \/ Len(sensing_time) # 15
       \/ sensing_time[9] # "T"
       \/ \E i \in (1 .. 15) \ {9} : ~IsDigit(sensing_time[i])
    THEN BadDate
    ELSE LET Y == ToInt(SubSeq(sensing_time, 1, 4))
             m == ToInt(SubSeq(sensing_time, 5, 6))
             d == ToInt(SubSeq(sensing_time, 7, 8))
             H == ToInt(SubSeq(sensing_time, 10, 11))
             M == ToInt(SubSeq(sensing_time, 12, 13))
             S == ToInt(SubSeq(sensing_time, 14, 15))
         IN  IF /\ Y >= 1
                /\ m \in 1 .. 12
                /\ d \in 1 .. DaysIn(Y, m)
                /\ H < 24 /\ M < 60 /\ S < 60
             THEN Date(Y, m, d, H, M, S)
             ELSE BadDate

RECURSIVE Decimal(_)
\* the decimal digits of a natural number, without padding
Decimal(n) ==
    IF n < 10 THEN <<Digits[n + 1]>>
    ELSE Decimal(n \div 10) \o <<Digits[(n % 10) + 1]>>

\* a number below 100 on two digits
TwoDigits(n) == <<Digits[(n \div 10) + 1], Digits[(n % 10) + 1]>>

\* a format that does not pad the fields with zeros
strftime_unpadded(date) ==
    Decimal(date.Y) \o Decimal(date.m) \o Decimal(date.d) \o <<"T">>
        \o Decimal(date.H) \o Decimal(date.M) \o Decimal(date.S)

\* date.strftime(DATETIME_FMT), DATETIME_FMT being "%Y%m%dT%H%M%S": the C
\* library writes %Y without padding and the other fields on two digits
strftime(date) ==
    Decimal(date.Y) \o TwoDigits(date.m) \o TwoDigits(date.d) \o <<"T">>
        \o TwoDigits(date.H) \o TwoDigits(date.M) \o TwoDigits(date.S)

\* get_datetime (without its cache); sensing_time is split_name[2]
get_datetime(o, as_datetime) ==
    LET date == IF o.datetime = NoDate THEN strptime(o.sensing_time) ELSE o.datetime
    IN  IF date.k = "ValueError" THEN Result("ValueError", None, <<>>, 0, {})
        ELSE IF as_datetime THEN Result("", date, <<>>, 0, {})
        ELSE Result("", strftime(date), <<>>, 0, {})

\* the latitude bands of the military grid, in the order of the alphabet
UtmLetters ==
    <<"C", "D", "E", "F", "G", "H", "J", "K", "L", "M",
      "N", "P", "Q", "R", "S", "T", "U", "V", "W", "X">>

Ord(letter) == CHOOSE i \in 1 .. Len(UtmLetters) : UtmLetters[i] = letter

\* CRS.from_string(f"epsg:32{utm_hemisphere}{utm_nb}"), utm_nb on two digits
Epsg(utm_hemisphere, utm_nb) == 32000 + 100 * utm_hemisphere + utm_nb

\* S2Product.crs (without its cache)
s2_crs(o) ==
    IF o.baseline < 207
    THEN LET r == read_mtd(o)
         IN  IF r.raised = ""
             THEN Result("", r.value.HORIZONTAL_CS_CODE, <<>>, r.io, r.done)
             ELSE LET utm_nb == o.tile_name.utm_nb
                      utm_letter == o.tile_name.utm_letter
                      utm_hemisphere == IF Ord(utm_letter) > Ord("N") THEN 6 ELSE 7
                  IN  Result("", Epsg(utm_hemisphere, utm_nb), <<>>, r.io, r.done)
    ELSE \* super().crs(): the CRS of the default band, read from its file
         Result("", o.band_crs, <<>>, 1, {})

\* vectors.corresponding_utm_projection(lat, lon), in whole degrees
corresponding_utm_projection(lat, lon) ==
    Epsg(IF lat >= 0 THEN 6 ELSE 7, ((lon + 180) \div 6) + 1)

\* S3Product.crs: the two tie point grids are read at every call
s3_crs(o) ==
    Result("", corresponding_utm_projection(o.tie.mid_lat, o.tie.mid_lon), <<>>, 2, {})

CorruptedWarning ==
    "Corrupted metadata. Trying to process this product in degraded mode."

\* a constructor that lets the error of read_mtd through
s2_init_strict(o) ==
    LET r == read_mtd(o)
    IN  Result(r.raised, None, <<>>, r.io, r.done)

\* S2Product.__init__, after the initialization of the super class
s2_init(o) ==
    LET r == read_mtd(o)
    IN  Result("", None,
               IF r.raised = "InvalidProductError" THEN <<CorruptedWarning>> ELSE <<>>,
               r.io, r.done)


(***************************************************************************)
(* s2_product.py: the band files.  A folder name is a tuple: <<"R", 10,    *)
(* "m">> for R10m, <<"IMG_DATA">>.  The tree of a product is the set of    *)
(* band folders it holds and the set of <<folder, band id>> of its .jp2    *)
(* files.  A band id is the string of _map_bands, as characters.           *)
(***************************************************************************)
Dir(resolution) == <<"R", resolution, "m">>

ImgData == <<"IMG_DATA">>

S2ProductType == {"L1C", "L2A"}

\* the ID of the bands in _map_bands
BandId ==
    [CA |-> <<"0", "1">>, BLUE |-> <<"0", "2">>, GREEN |-> <<"0", "3">>,
     RED |-> <<"0", "4">>, VRE_1 |-> <<"0", "5">>, VRE_2 |-> <<"0", "6">>,
     VRE_3 |-> <<"0", "7">>, NIR |-> <<"8", "A">>, NARROW_NIR |-> <<"0", "8">>,
     WV |-> <<"0", "9">>, SWIR_1 |-> <<"1", "1">>, SWIR_2 |-> <<"1", "2">>]

\* the GSD of the bands in _map_bands, in meters
BandGsd ==
    [CA |-> 60, BLUE |-> 10, GREEN |-> 10, RED |-> 10, VRE_1 |-> 20, VRE_2 |-> 20,
     VRE_3 |-> 20, NIR |-> 10, NARROW_NIR |-> 20, WV |-> 60, SWIR_1 |-> 20, SWIR_2 |-> 20]

\* the keys of BAND_DIR_NAMES[S2ProductType.L2A]
BandDirKeysL2A ==
    {<<"0", "1">>, <<"0", "2">>, <<"0", "3">>, <<"0", "4">>, <<"0", "5">>, <<"0", "6">>,
     <<"0", "7">>, <<"0", "8">>, <<"8", "A">>, <<"0", "9">>, <<"1", "1">>, <<"1", "2">>}


\* BAND_DIR_NAMES[S2ProductType.L2A]
BandDirNamesL2A(band_id) ==
    CASE band_id = <<"0", "1">> -> <<Dir(60)>>
      [] band_id \in {<<"0", "2">>, <<"0", "3">>, <<"0", "4">>} ->
            <<Dir(10), Dir(20), Dir(60)>>
      [] band_id \in {<<"0", "5">>, <<"0", "6">>, <<"0", "7">>} -> <<Dir(20), Dir(60)>>
      [] band_id = <<"0", "8">> -> <<Dir(10)>>
      [] band_id = <<"8", "A">> -> <<Dir(20), Dir(60)>>
      [] band_id = <<"0", "9">> -> <<Dir(60)>>
      [] band_id \in {<<"1", "1">>, <<"1", "2">>} -> <<Dir(20), Dir(60)>>

Listed(dirs) == {dirs[i] : i \in 1 .. Len(dirs)}

\* a choice of the listed folder whose resolution is the nearest
dir_name_nearest(product_type, band, resolution) ==
    IF product_type = "L2A"
    THEN LET listed == Listed(BandDirNamesL2A(BandId[band]))
         IN  CHOOSE d \in listed :
                \A e \in listed : Abs(d[2] - resolution) <= Abs(e[2] - resolution)
    ELSE ImgData

\* the folder _get_res_band_folder looks for: resolution 0 stands for None
dir_name(product_type, band, resolution) ==
    IF product_type = "L2A"
    THEN LET band_dir == BandDirNamesL2A(BandId[band])
         IN  IF resolution # 0 /\ Dir(resolution) \in Listed(band_dir)
             THEN Dir(resolution)
             ELSE band_dir[1]
    ELSE ImgData

\* the search of the folder in the product: next(glob(...)) in a directory,
\* [...][0] over the entries of an archive
find_folder(o, d) ==
    IF o.is_archived
    THEN (IF d \in o.tree.folders \/ \E f \in o.tree.files : f[1] = d
          THEN "" ELSE "IndexError")
    ELSE (IF d \in o.tree.folders THEN "" ELSE "StopIteration")

RECURSIVE ResBandFolder(_, _, _, _)
\* the loop of _get_res_band_folder over band_list
ResBandFolder(o, band_list, resolution, s2_bands_folder) ==
    IF band_list = <<>> THEN Result("", s2_bands_folder, <<>>, 0, {})
    ELSE LET band == Head(band_list)
             d == dir_name(o.product_type, band, resolution)
             found == find_folder(o, d)
         IN  IF found # "" THEN Result(found, None, <<>>, 0, {})
             ELSE ResBandFolder(o, Tail(band_list), resolution,
                                [b \in DOMAIN s2_bands_folder \cup {band} |->
                                    IF b = band THEN d ELSE s2_bands_folder[b]])

get_res_band_folder(o, band_list, resolution) ==
    ResBandFolder(o, band_list, resolution, <<>>)

CleanPath(band) == [kind |-> "clean", dir |-> <<>>, band |-> band]

Jp2Path(d, band) == [kind |-> "jp2", dir |-> d, band |-> band]

RECURSIVE BandPaths(_, _, _, _)
\* the loop of get_band_paths over band_list
BandPaths(o, band_list, band_folders, band_paths) ==
    IF band_list = <<>> THEN Result("", band_paths, <<>>, 0, {})
    ELSE LET band == Head(band_list)
             path == IF band \in o.clean THEN CleanPath(band)
                     ELSE Jp2Path(band_folders[band], band)
         IN  IF band \notin o.clean /\ <<band_folders[band], BandId[band]>> \notin o.tree.files
             THEN Result("InvalidProductError", None, <<>>, 0, {})
             ELSE BandPaths(o, Tail(band_list), band_folders,
                            [b \in DOMAIN band_paths \cup {band} |->
                                IF b = band THEN path ELSE band_paths[b]])

get_band_paths(o, band_list, resolution) ==
    LET band_folders == get_res_band_folder(o, band_list, resolution)
    IN  IF band_folders.raised # "" THEN band_folders
        ELSE BandPaths(o, band_list, band_folders.value, <<>>)

(***************************************************************************)
(* s2_product.py: _to_reflectance                                          *)
(***************************************************************************)
\* root.findtext(".//..ADD_OFFSET[@band_id = '{band_id}']")
FindOffset(root, band_id) ==
    IF band_id \in DOMAIN root.ADD_OFFSET THEN root.ADD_OFFSET[band_id] ELSE NoText

\* the offset and the quantification value of the conversion of `band`
Calibration(o, band) ==
    LET r == read_datatake_mtd(o)
        fallback ==
            Result("", [offset |-> IF IsLt40(o.baseline) THEN F(0, 1) ELSE F(-1000, 1),
                        quantif_value |-> F(10000, 1)], <<>>, r.io, r.done)
    IN  IF r.raised # "" THEN fallback
        ELSE LET quantif_value == float(r.value.QUANTIFICATION_VALUE)
                 band_id == IF band = "NIR" THEN 8 ELSE ToInt(BandId[band])
                 offset == IF IsLt40(o.baseline) THEN F(0, 1)
                           ELSE float(FindOffset(r.value, band_id))
                 first == Lift(quantif_value, offset, Zero)
             IN  IF first.k = "TypeError" THEN fallback
                 ELSE IF IsRaise(first) THEN Result(first.k, None, <<>>, r.io, r.done)
                 ELSE Result("", [offset |-> offset, quantif_value |-> quantif_value],
                             <<>>, r.io, r.done)

\* a conversion that adds the offset after the division
to_reflectance_offset_last(o, pixel, path, band) ==
    IF path.kind = "jp2"
    THEN LET c == Calibration(o, band)
         IN  IF c.raised # "" THEN c
             ELSE Result("",
                    [band_arr |-> Add(Divide(pixel, c.value.quantif_value), c.value.offset),
                     no_data_val |-> o.no_data_val,
                     offset |-> c.value.offset,
                     quantif_value |-> c.value.quantif_value],
                    <<>>, c.io, c.done)
    ELSE Result("", [band_arr |-> pixel, no_data_val |-> o.no_data_val,
                     offset |-> Zero, quantif_value |-> Zero], <<>>, 0, {})

\* _to_reflectance on one pixel of band_arr: the converted pixel and the new
\* no_data_val of the product
to_reflectance(o, pixel, path, band) ==
    IF path.kind = "jp2"
    THEN LET c == Calibration(o, band)
         IN  IF c.raised # "" THEN c
             ELSE Result("",
                    [band_arr |-> Divide(Add(pixel, c.value.offset), c.value.quantif_value),
                     no_data_val |->
                        [b \in DOMAIN o.no_data_val \cup {band} |->
                            IF b = band
                            THEN Divide(Add(F(o.base_no_data_val, 1), c.value.offset),
                                        c.value.quantif_value)
                            ELSE o.no_data_val[b]],
                     offset |-> c.value.offset,
                     quantif_value |-> c.value.quantif_value],
                    <<>>, c.io, c.done)
    ELSE Result("", [band_arr |-> pixel, no_data_val |-> o.no_data_val,
                     offset |-> Zero, quantif_value |-> Zero], <<>>, 0, {})


\* no product instance, no call of its methods
NoInstance == [family |-> ""]

NoRes ==
    [op |-> "", args |-> <<>>, raised |-> "", value |-> None, io |-> 0, log |-> <<>>,
     hit |-> FALSE]

(***************************************************************************)
(* The product instances the methods are called on.                       *)
(***************************************************************************)
Chars(Y, m, d, H, M, S) ==
    Decimal(Y) \o TwoDigits(m) \o TwoDigits(d) \o <<"T">>
        \o TwoDigits(H) \o TwoDigits(M) \o TwoDigits(S)

\* third fields of product names: four datatake times, and two fields that
\* are no date (a 30th of February, a 13th month)
SensingTimes ==
    {Chars(2020, 8, 24, 11, 6, 31), Chars(2019, 12, 31, 23, 59, 59),
     Chars(2020, 2, 29, 0, 0, 0), Chars(2021, 1, 1, 0, 0, 9),
     Chars(2021, 2, 30, 10, 10, 10), Chars(2020, 13, 24, 11, 6, 31)}

SunAngle(present, zenith, azimuth) ==
    [present |-> present, ZENITH_ANGLE |-> zenith, AZIMUTH_ANGLE |-> azimuth]

Mtd(readable, mean_sun_angle, cloudy, cs_code) ==
    [readable |-> readable, Mean_Sun_Angle |-> mean_sun_angle,
     CLOUDY_PIXEL_PERCENTAGE |-> cloudy, HORIZONTAL_CS_CODE |-> cs_code]

\* a tile metadata file that cannot be read
NoMtd == Mtd(FALSE, SunAngle(FALSE, NoText, NoText), NoText, 0)

\* the texts of an element holding a number: absent, a number, not a number
Texts(v) == {NoText, Number(v), Word("n/a")}

TileMtds ==
    {NoMtd}
    \cup {Mtd(TRUE, SunAngle(FALSE, NoText, NoText), cc, 32630) : cc \in Texts(F(111, 2))}
    \cup {Mtd(TRUE, SunAngle(TRUE, ze, az), cc, 32630) :
            ze \in Texts(F(33, 1)), az \in Texts(F(149, 1)), cc \in Texts(F(111, 2))}

Datatake(readable, quantif, add_offset, orbit) ==
    [readable |-> readable, QUANTIFICATION_VALUE |-> quantif, ADD_OFFSET |-> add_offset,
     SENSING_ORBIT_DIRECTION |-> orbit]

NoOffsets == [band_id \in {4, 8} |-> NoText]

NoDatatake == Datatake(FALSE, NoText, NoOffsets, NoText)

\* the datatake metadata read for the orbit direction
OrbitDatatakes ==
    {NoDatatake}
    \cup {Datatake(TRUE, Number(F(10000, 1)), NoOffsets, od) :
            od \in {NoText, Word("ASCENDING"), Word("DESCENDING"), Word("n/a")}}

\* the datatake metadata read for the calibration: ADD_OFFSET of the bands 4 and 8
CalibrationDatatakes ==
    {NoDatatake}
    \cup {Datatake(TRUE, q, [band_id \in {4, 8} |-> IF band_id = 4 THEN o4 ELSE o8],
                   Word("DESCENDING")) :
            q \in {NoText, Number(F(10000, 1)), Number(F(2000, 1)), Word("n/a")},
            o4 \in Texts(F(-1000, 1)), o8 \in {NoText, Number(F(-500, 1))}}

\* the bands whose files are looked for
PathBands == {"RED", "VRE_1", "NARROW_NIR"}

Dirs(product_type) == IF product_type = "L2A" THEN {Dir(10), Dir(20), Dir(60)} ELSE {ImgData}

\* the .jp2 files the folders of a product may hold
Candidates(product_type, folders) ==
    {f \in folders \X {BandId[b] : b \in PathBands} :
        product_type = "L2A" => f[1] \in Listed(BandDirNamesL2A(f[2]))}

Tree(folders, files) == [folders |-> folders, files |-> files]

Trees(product_type) ==
    UNION {{Tree(folders, files) : files \in SUBSET Candidates(product_type, folders)} :
            folders \in SUBSET Dirs(product_type)}

\* a product with all its folders and band files
FullTree(product_type) ==
    Tree(Dirs(product_type), Candidates(product_type, Dirs(product_type)))

\* a Sentinel-2 product before its construction
S2(product_type, baseline) ==
    [family |-> "S2", product_type |-> product_type, baseline |-> ProcessingBaseline(baseline),
     is_archived |-> FALSE, sensing_time |-> Chars(2020, 8, 24, 11, 6, 31),
     datetime |-> NoDate, tile_name |-> [utm_nb |-> 30, utm_letter |-> "T"],
     band_crs |-> 32630, mtd |-> Mtd(TRUE, SunAngle(TRUE, Number(F(33, 1)), Number(F(149, 1))),
                                     Number(F(111, 2)), 32630),
     datatake |-> Datatake(TRUE, Number(F(10000, 1)), NoOffsets, Word("DESCENDING")),
     tree |-> FullTree(product_type), clean |-> {},
     tie |-> [mid_lat |-> 0, mid_lon |-> 0],
     constructed |-> FALSE, base_no_data_val |-> 0, no_data_val |-> <<>>,
     memo |-> <<>>, crs_first |-> 0]

\* a Sentinel-3 product: the middle of its tie point grids, in degrees
S3(mid_lat, mid_lon) ==
    [S2("L1C", 0) EXCEPT !.family = "S3", !.tie = [mid_lat |-> mid_lat, mid_lon |-> mid_lon]]


InitIndex ==
    /\ pc = "ready"
    /\ idx \in IndexNames
    /\ bands \in BandDicts(get_needed_bands(idx))
    /\ out = NoCall
    /\ prod = NoProduct
    /\ band_arr = NoMask
    /\ wanted = <<>>
    /\ def_nodata = NoMask
    /\ ret = NoRet
    /\ log = <<>>
    /\ self = NoInstance
    /\ res = NoRes

InitMask ==
    /\ pc = "ready"
    /\ idx = ""
    /\ bands = <<>>
    /\ out = NoCall
    /\ prod \in MaskProducts
    /\ band_arr \in BandArrays
    /\ wanted = <<>>
    /\ def_nodata = NoMask
    /\ ret = NoRet
    /\ log = <<>>
    /\ self = NoInstance
    /\ res = NoRes

InitClouds ==
    /\ pc = "ready"
    /\ idx = ""
    /\ bands = <<>>
    /\ out = NoCall
    /\ prod \in CloudProducts
    /\ band_arr = NoMask
    /\ wanted \in SeqsUpTo(CloudBands, MaxBands)
    /\ def_nodata \in {NoMask, [p \in Pixels |-> IF p = <<0, 0>> THEN 1 ELSE 0]}
    /\ ret = NoRet
    /\ log = <<>>
    /\ self = NoInstance
    /\ res = NoRes

\* index.<idx>(bands)
Evaluate ==
    /\ pc = "ready"
    /\ idx \in IndexNames
    /\ out' = idx_fct_wrapper(idx, bands)
    /\ pc' = "done"
    /\ UNCHANGED <<idx, bands, prod, band_arr, wanted, def_nodata, ret, log, self, res>>

Returned(op, r, invalid) ==
    [op |-> op, raised |-> r.raised, mask |-> r.mask, det |-> r.det, invalid |-> invalid,
     band_dict |-> <<>>]

\* prod._manage_invalid_pixels(band_arr, band)
ManageInvalidPixels ==
    /\ pc = "ready"
    /\ prod # NoProduct
    /\ wanted = <<>>
    /\ LET r == manage_invalid_pixels(prod, band_arr)
       IN  /\ ret' = Returned("_manage_invalid_pixels", r,
                        IF r.raised # "" THEN {}
                        ELSE IF IsLt40(prod.baseline) THEN FlaggedInt(r.mask)
                        ELSE FlaggedBool(r.mask))
           /\ log' = log \o r.log
    /\ pc' = "done"
    /\ UNCHANGED <<idx, bands, out, prod, band_arr, wanted, def_nodata, self, res>>

\* prod._manage_nodata(band_arr, band)
ManageNodata ==
    /\ pc = "ready"
    /\ prod # NoProduct
    /\ wanted = <<>>
    /\ LET r == manage_nodata(prod, band_arr)
       IN  /\ ret' = Returned("_manage_nodata", r,
                        IF r.raised # "" THEN {} ELSE FlaggedInt(r.mask))
           /\ log' = log \o r.log
    /\ pc' = "done"
    /\ UNCHANGED <<idx, bands, out, prod, band_arr, wanted, def_nodata, self, res>>

\* prod._open_clouds(wanted)
OpenClouds ==
    /\ pc = "ready"
    /\ prod # NoProduct
    /\ LET r == open_clouds(prod, wanted, def_nodata)
       IN  ret' = [op |-> "_open_clouds", raised |-> r.raised, mask |-> NoMask,
                   det |-> NoMask, invalid |-> {}, band_dict |-> r.band_dict]
    /\ pc' = "done"
    /\ UNCHANGED <<idx, bands, out, prod, band_arr, wanted, def_nodata, log, self, res>>

(***************************************************************************)
(* The calls of the methods of a product.  A method under @cache runs once *)
(* per instance and argument: a value it returned is kept in memo, an      *)
(* exception is not.                                                       *)
(***************************************************************************)
\* the call of a method whose body gives r; key is "" without @cache
Invoke(key, r) ==
    IF key # "" /\ key \in DOMAIN self.memo
    THEN [Result("", self.memo[key], <<>>, 0, {}) EXCEPT !.done = {}]
    ELSE [r EXCEPT !.done = r.done \cup (IF key # "" /\ r.raised = "" THEN {key} ELSE {})]

\* memo after a call: the readers the call ran, and its own value
Memo(key, q) ==
    [k \in DOMAIN self.memo \cup q.done |->
        IF k \in DOMAIN self.memo THEN self.memo[k]
        ELSE IF k = key THEN q.value ELSE None]

Res(op, args, key, q) ==
    [op |-> op, args |-> args, raised |-> q.raised, value |-> q.value, io |-> q.io,
     log |-> q.log, hit |-> (key # "" /\ key \in DOMAIN self.memo)]

Others == <<idx, bands, out, prod, band_arr, wanted, def_nodata, ret, pc>>

\* S2Product(product_path)
Construct ==
    /\ self.family = "S2"
    /\ ~self.constructed
    /\ LET q == Invoke("", s2_init(self))
       IN  /\ self' = [self EXCEPT !.constructed = TRUE, !.memo = Memo("", q)]
           /\ res' = Res("__init__", <<>>, "", q)
           /\ log' = log \o q.log
    /\ UNCHANGED Others

\* a method without arguments under @cache
Method(op, body) ==
    /\ self.family = "S2"
    /\ self.constructed
    /\ LET q == Invoke(op, body)
       IN  /\ self' = [self EXCEPT !.memo = Memo(op, q)]
           /\ res' = Res(op, <<>>, op, q)
           /\ log' = log \o q.log
    /\ UNCHANGED Others

GetMeanSunAngles == Method("get_mean_sun_angles", get_mean_sun_angles(self))

GetCloudCover == Method("get_cloud_cover", get_cloud_cover(self))

GetOrbitDirection == Method("get_orbit_direction", get_orbit_direction(self))

\* prod.crs(): under @cache in S2Product, not in S3Product
Crs ==
    /\ self.family \in {"S2", "S3"}
    /\ self.family = "S2" => self.constructed
    /\ LET key == IF self.family = "S2" THEN "crs" ELSE ""
           q == Invoke(key, IF self.family = "S2" THEN s2_crs(self) ELSE s3_crs(self))
       IN  /\ self' = [self EXCEPT !.memo = Memo(key, q),
                                   !.crs_first = IF @ = 0 /\ q.raised = "" THEN q.value ELSE @]
           /\ res' = [Res("crs", <<>>, key, q) EXCEPT !.args = <<self.crs_first>>]
           /\ log' = log \o q.log
    /\ UNCHANGED Others

\* prod.get_datetime(as_datetime)
GetDatetime ==
    /\ self.family = "S2"
    /\ self.constructed
    /\ \E as_datetime \in BOOLEAN :
        LET key == IF as_datetime THEN "get_datetime(True)" ELSE "get_datetime(False)"
            q == Invoke(key, get_datetime(self, as_datetime))
        IN  /\ self' = [self EXCEPT !.memo = Memo(key, q)]
            /\ res' = Res("get_datetime", <<as_datetime>>, key, q)
            /\ log' = log \o q.log
    /\ UNCHANGED Others

\* the resolutions asked for: 0 stands for None
Resolutions == {0, 10, 20, 50, 60}

\* the band lists asked for
BandLists == {<<b>> : b \in PathBands} \cup {<<"RED", "VRE_1">>, <<"VRE_1", "NARROW_NIR">>}

\* prod.get_band_paths(band_list, resolution)
GetBandPaths ==
    /\ self.family = "S2"
    /\ self.constructed
    /\ \E band_list \in BandLists, resolution \in Resolutions :
        LET q == Invoke("", get_band_paths(self, band_list, resolution))
        IN  /\ res' = Res("get_band_paths", <<band_list, resolution>>, "", q)
            /\ self' = [self EXCEPT !.memo = Memo("", q)]
            /\ log' = log \o q.log
    /\ UNCHANGED Others

\* the raw values of a pixel of a band file
RawValues == {0, 1, 999, 1000, 4096}

\* the bands converted
ReflectanceBands == {"RED", "NIR", "NARROW_NIR"}

\* prod._to_reflectance(band_arr, path, band) on a pixel of band_arr
ToReflectance ==
    /\ self.family = "S2"
    /\ self.constructed
    /\ \E raw \in RawValues, band \in ReflectanceBands, kind \in {"jp2", "clean"} :
        LET path == IF kind = "jp2" THEN Jp2Path(ImgData, band) ELSE CleanPath(band)
            q == Invoke("", to_reflectance(self, F(raw, 1), path, band))
        IN  /\ res' = Res("_to_reflectance", <<F(raw, 1), kind, band>>, "", q)
            /\ self' = [self EXCEPT !.memo = Memo("", q),
                                    !.no_data_val =
                                        IF q.raised = "" THEN q.value.no_data_val ELSE @]
            /\ log' = log \o q.log
    /\ UNCHANGED Others

InitObject ==
    /\ pc = "object"
    /\ idx = ""
    /\ bands = <<>>
    /\ out = NoCall
    /\ prod = NoProduct
    /\ band_arr = NoMask
    /\ wanted = <<>>
    /\ def_nodata = NoMask
    /\ ret = NoRet
    /\ log = <<>>
    /\ res = NoRes

\* products of every state of their metadata
InitMetadata ==
    /\ InitObject
    /\ self \in {[S2("L2A", 209) EXCEPT !.mtd = m, !.datatake = d] :
                    m \in TileMtds, d \in OrbitDatatakes}

\* products before and after the format change, with and without offsets
InitReflectance ==
    /\ InitObject
    /\ self \in {[S2(t, n) EXCEPT !.datatake = d] :
                    t \in S2ProductType, n \in {209, 400}, d \in CalibrationDatatakes}

\* products with some of their folders and band files, as archives or not
InitBandPaths ==
    /\ InitObject
    /\ self \in UNION {{[S2(t, 209) EXCEPT !.tree = tree, !.is_archived = a, !.clean = c] :
                            tree \in Trees(t), a \in BOOLEAN, c \in {{}, {"RED"}}} :
                        t \in S2ProductType}

TileNames ==
    {[utm_nb |-> n, utm_letter |-> l] :
        n \in {1, 30, 60}, l \in {"C", "M", "N", "P", "T"}}

\* products of both families, with names of every kind
InitAccessors ==
    /\ InitObject
    /\ self \in
        {[S2("L1C", n) EXCEPT !.mtd = m, !.tile_name = tile, !.sensing_time = t,
                              !.datetime = d] :
            n \in {206, 209}, m \in {NoMtd, S2("L1C", 209).mtd}, tile \in TileNames,
            t \in SensingTimes, d \in {NoDate, Date(2020, 8, 24, 11, 13, 45)}}
        \cup {S3(lat, lon) : lat \in {-10, 0, 48}, lon \in {-180, 7, 179}}

NextMetadata ==
    Construct \/ GetMeanSunAngles \/ GetCloudCover \/ GetOrbitDirection \/ GetBandPaths

NextReflectance == Construct \/ ToReflectance

NextBandPaths == Construct \/ GetBandPaths

NextAccessors == Construct \/ Crs \/ GetDatetime


(***************************************************************************)
(* s2_product.py: _open_mask_lt_4_0, statement by statement.  The call     *)
(* owns a temporary directory; frame holds its local variables, the state  *)
(* of that directory and the events of the call in their order.            *)
(***************************************************************************)
S2GmlMasks == {"TECQUA", "SATURA", "NODATA", "DETFOO", "DEFECT", "CLOUDS"}

\* the .gml file of a mask in the product: missing, unreadable or a vector
GmlFiles == {"missing", "corrupted", "vector"}

\* a product whose QI_DATA folder holds the mask file in state gml
GmlProduct(is_archived, gml, crs_fails) ==
    [family |-> "S2/QI_DATA", is_archived |-> is_archived, gml |-> gml,
     crs_fails |-> crs_fails]

\* the frame of a call of _open_mask_lt_4_0(mask_id, band)
OpenMaskFrame(mask_id, band) ==
    [op |-> "_open_mask_lt_4_0", mask_id |-> mask_id,
     band_name |-> IF mask_id = "CLOUDS" THEN <<"0", "0">> ELSE BandId[band],
     tmp_dir |-> "", extracted |-> FALSE, mask_path |-> "", mask |-> "",
     raised |-> "", cause |-> "", trace |-> <<>>]

\* a directory that is left behind
cleanup_skipped(tmp_dir) == tmp_dir

\* tmp_dir.cleanup(): the directory and what it holds are removed
cleanup(tmp_dir) == "removed"

\* tmp_dir = tempfile.TemporaryDirectory()
TemporaryDirectory ==
    /\ pc = "_open_mask_lt_4_0"
    /\ pc' = "try"
    /\ res' = [res EXCEPT !.tmp_dir = "exists", !.trace = Append(@, "mkdtemp")]
    /\ UNCHANGED <<idx, bands, out, prod, band_arr, wanted, def_nodata, ret, log, self>>

\* the first half of the try block: zip_ds.extract(...[0], tmp_dir.name) for
\* an archive, files.get_file_in_dir for a folder; `except Exception` turns
\* what is raised into InvalidProductError
GetMaskPath ==
    /\ pc = "try"
    /\ IF self.gml = "missing"
       THEN /\ pc' = "finally"
            /\ res' = [res EXCEPT !.raised = "InvalidProductError",
                                  !.cause = IF self.is_archived THEN "IndexError"
                                            ELSE "FileNotFoundError",
                                  !.trace = Append(@, "except")]
       ELSE /\ pc' = "read"
            /\ res' = [res EXCEPT !.extracted = self.is_archived,
                                  !.mask_path = IF self.is_archived THEN "tmp_dir"
                                                ELSE "QI_DATA",
                                  !.trace = Append(@, IF self.is_archived THEN "extract"
                                                      ELSE "get_file_in_dir")]
    /\ UNCHANGED <<idx, bands, out, prod, band_arr, wanted, def_nodata, ret, log, self>>

\* mask = vectors.read(mask_path, crs=self.crs()): the whole vector is
\* loaded; a file of a directory that is gone cannot be opened
ReadVector ==
    /\ pc = "read"
    /\ pc' = "finally"
    /\ LET gone == res.mask_path = "tmp_dir" /\ ~(res.tmp_dir = "exists" /\ res.extracted)
           failure == CASE self.crs_fails -> "InvalidProductError"
                        [] gone -> "DriverError"
                        [] self.gml = "corrupted" -> "DriverError"
                        [] OTHER -> ""
       IN  res' = IF failure = ""
                  THEN [res EXCEPT !.mask = res.mask_id, !.trace = Append(@, "read")]
                  ELSE [res EXCEPT !.raised = "InvalidProductError", !.cause = failure,
                                   !.trace = Append(@, "except")]
    /\ UNCHANGED <<idx, bands, out, prod, band_arr, wanted, def_nodata, ret, log, self>>

\* finally: tmp_dir.cleanup()
Cleanup ==
    /\ pc = "finally"
    /\ pc' = "return"
    /\ res' = [res EXCEPT !.tmp_dir = cleanup(@),
                          !.extracted = IF cleanup(res.tmp_dir) = "removed" THEN FALSE ELSE @,
                          !.trace = Append(@, "cleanup")]
    /\ UNCHANGED <<idx, bands, out, prod, band_arr, wanted, def_nodata, ret, log, self>>

\* return mask, or the exception leaves the call
ReturnMask ==
    /\ pc = "return"
    /\ pc' = "returned"
    /\ res' = [res EXCEPT !.trace = Append(@, IF res.raised = "" THEN "return" ELSE "raise")]
    /\ UNCHANGED <<idx, bands, out, prod, band_arr, wanted, def_nodata, ret, log, self>>

\* no index call, no mask operation, nothing logged
InitOthers ==
    /\ idx = ""
    /\ bands = <<>>
    /\ out = NoCall
    /\ prod = NoProduct
    /\ band_arr = NoMask
    /\ wanted = <<>>
    /\ def_nodata = NoMask
    /\ ret = NoRet
    /\ log = <<>>

\* calls of _open_mask_lt_4_0 on products with the mask file in every state
InitOpenMask ==
    /\ InitOthers
    /\ pc = "_open_mask_lt_4_0"
    /\ self \in {GmlProduct(a, g, c) : a \in BOOLEAN, g \in GmlFiles, c \in BOOLEAN}
    /\ res \in {OpenMaskFrame(m, b) : m \in S2GmlMasks, b \in PathBands}

NextOpenMask == TemporaryDirectory \/ GetMaskPath \/ ReadVector \/ Cleanup \/ ReturnMask


(***************************************************************************)
(* rs2_product.py: RADARSAT-2 products.  product.xml is missing, not XML,  *)
(* or a root with or without the elements _set_resolution looks for.       *)
(***************************************************************************)
Rs2ProductType == {"SLC", "SGX", "SGF", "SCN", "SCW", "SCF", "SCS", "SSG", "SPG"}

\* the names of the members of the enum Rs2SensorMode
Rs2SensorMode ==
    {"S", "W", "F", "WF", "MF", "WMF", "XF", "U", "WU", "EH", "EL", "SQ", "WSQ",
     "FQ", "WFQ", "SCN", "SCW", "OSVN", "DVWF", "SLA"}

Rs2Xml(k, namespace, imageAttributes, rasterAttributes, sampledPixelSpacing) ==
    [k |-> k, namespace |-> namespace, imageAttributes |-> imageAttributes,
     rasterAttributes |-> rasterAttributes, sampledPixelSpacing |-> sampledPixelSpacing]

Rs2Xmls ==
    {Rs2Xml("missing", FALSE, FALSE, FALSE, NoText),
     Rs2Xml("malformed", FALSE, FALSE, FALSE, NoText),
     Rs2Xml("root", FALSE, TRUE, TRUE, Number(F(25, 4))),
     Rs2Xml("root", TRUE, FALSE, FALSE, NoText),
     Rs2Xml("root", TRUE, TRUE, FALSE, NoText),
     Rs2Xml("root", TRUE, TRUE, TRUE, NoText),
     Rs2Xml("root", TRUE, TRUE, TRUE, Word("n/a")),
     Rs2Xml("root", TRUE, TRUE, TRUE, Number(F(0, 1))),
     Rs2Xml("root", TRUE, TRUE, TRUE, Number(F(25, 4)))}

\* a RADARSAT-2 product, as a folder or as a zip archive
Rs2(is_archived, xml, kml, sensor_mode, product_type) ==
    [family |-> "RS2", is_archived |-> is_archived, xml |-> xml, kml |-> kml,
     sensor_mode |-> sensor_mode, product_type |-> product_type, zip_ds |-> "closed"]

\* Rs2Product.read_mtd: [0] of an empty list is IndexError, caught for a
\* folder only; root.tag.rindex("}") is ValueError for a tag with no namespace
rs2_read_mtd(o) ==
    CASE o.xml.k = "missing" ->
            Result(IF o.is_archived THEN "IndexError" ELSE "InvalidProductError",
                   None, <<>>, 0, {})
      [] o.xml.k = "malformed" -> Result("XMLSyntaxError", None, <<>>, 1, {})
      [] ~o.xml.namespace -> Result("ValueError", None, <<>>, 1, {})
      [] OTHER -> Result("", o.xml, <<>>, 1, {})

\* the survival mode of _set_resolution, branch by branch: the sensor modes
\* named by the test, the value for the product types set apart and the
\* value for the others
Row(modes, types, then, else) ==
    [modes |-> modes, types |-> types, then |-> then, else |-> else]

ModeTable ==
    <<Row(<<"SLA">>, {"SGX"}, F(1, 1), F(1, 2)),
      Row(<<"U", "WU">>, {"SGX"}, F(1, 1), F(156, 100)),
      Row(<<"MF", "WMF", "F", "WF">>, {"SGX"}, F(313, 100), F(625, 100)),
      Row(<<"XF">>, {"SGX"}, F(2, 1), F(313, 100)),
      Row(<<"S", "EH">>, {"SGX"}, F(8, 1), F(125, 10)),
      Row(<<"W", "EL">>, {"SGX"}, F(10, 1), F(125, 10)),
      Row(<<"FQ", "WQ">>, {}, F(313, 100), F(313, 100)),
      Row(<<"SQ", "WSQ">>, {}, Raise("NotImplementedError"), Raise("NotImplementedError")),
      Row(<<"SCN">>, {}, F(25, 1), F(25, 1)),
      Row(<<"SCW">>, {}, F(50, 1), F(50, 1)),
      Row(<<"DVWF">>, {"SCF"}, F(40, 1), F(20, 1)),
      Row(<<"SCW">>, {"SCF"}, F(50, 1), Raise("NotImplementedError"))>>

\* the if / elif chain from branch i on: the members named by a test are
\* looked up in the enum before the test is made
RECURSIVE SurvivalMode(_, _, _)
SurvivalMode(sensor_mode, product_type, i) ==
    IF i > Len(ModeTable) THEN [v |-> Raise("InvalidTypeError"), branch |-> i]
    ELSE LET row == ModeTable[i]
         IN  IF \E j \in 1 .. Len(row.modes) : row.modes[j] \notin Rs2SensorMode
             THEN [v |-> Raise("AttributeError"), branch |-> i]
             ELSE IF \E j \in 1 .. Len(row.modes) : row.modes[j] = sensor_mode
             THEN [v |-> IF product_type \in row.types THEN row.then ELSE row.else,
                   branch |-> i]
             ELSE SurvivalMode(sensor_mode, product_type, i + 1)

\* the pixel spacing of the metadata: None when it is not there; only
\* InvalidProductError and AttributeError are caught
SampledPixelSpacing(o) ==
    LET r == rs2_read_mtd(o)
    IN  CASE r.raised = "InvalidProductError" -> NoText
          [] r.raised # "" -> Word(r.raised)
          [] ~r.value.imageAttributes -> NoText
          [] ~r.value.rasterAttributes -> NoText
          [] OTHER -> LET def_res == float(r.value.sampledPixelSpacing)
                      IN  IF IsRaise(def_res) THEN Word(def_res.k) ELSE Number(def_res)

\* Rs2Product._set_resolution
rs2_set_resolution(o) ==
    LET def_res == SampledPixelSpacing(o)
    IN  IF def_res.k = "word" THEN Result(def_res.s, None, <<>>, 0, {})
        ELSE IF def_res.k = "number" /\ ~IsZero(def_res.v)
        THEN Result("", [v |-> def_res.v, branch |-> 0], <<>>, 0, {})
        ELSE LET s == SurvivalMode(o.sensor_mode, o.product_type, 1)
             IN  IF IsRaise(s.v) THEN Result(s.v.k, [v |-> Zero, branch |-> s.branch], <<>>, 0, {})
                 ELSE Result("", s, <<>>, 0, {})

\* a call of a method of a RADARSAT-2 product, made in one step
Rs2Call(op, q) ==
    /\ pc = "object"
    /\ self.family = "RS2"
    /\ res' = [op |-> op, args |-> <<>>, raised |-> q.raised, value |-> q.value,
               io |-> q.io, log |-> q.log, hit |-> FALSE, trace |-> <<>>]
    /\ UNCHANGED <<pc, idx, bands, out, prod, band_arr, wanted, def_nodata, ret, log, self>>

\* prod.read_mtd()
Rs2ReadMtd == Rs2Call("read_mtd", rs2_read_mtd(self))

\* prod._set_resolution()
Rs2SetResolution == Rs2Call("_set_resolution", rs2_set_resolution(self))

(***************************************************************************)
(* rs2_product.py: wgs84_extent, statement by statement.  zip_ds is the    *)
(* archive of the product, extent_file what gpd.read_file is given: the    *)
(* handle of the member product.kml of the archive, or a path.             *)
(***************************************************************************)
Wgs84Frame ==
    [op |-> "wgs84_extent", args |-> <<>>, raised |-> "", value |-> None, io |-> 0,
     log |-> <<>>, hit |-> FALSE, trace |-> <<>>, extent_file |-> "", zip_at_read |-> ""]

\* what a read of extent_file gives: the handle of a member shares the file
\* of its archive, and a read after the archive is closed depends on whether
\* that file is still held open
ReadFile(extent_file, zip_ds) ==
    IF extent_file = "member" /\ zip_ds = "closed"
    THEN {"", "ValueError"}
    ELSE {""}

\* the call begins: `with zipfile.ZipFile(self.path, "r") as zip_ds` for an
\* archive, glob.glob(...)[0] for a folder
Wgs84Extent ==
    /\ pc = "object"
    /\ self.family = "RS2"
    /\ IF self.is_archived
       THEN /\ pc' = "with"
            /\ self' = [self EXCEPT !.zip_ds = "open"]
            /\ res' = [Wgs84Frame EXCEPT !.trace = <<"ZipFile">>]
       ELSE /\ self' = self
            /\ IF self.kml = "missing"
               THEN /\ pc' = "object"
                    /\ res' = [Wgs84Frame EXCEPT !.raised = "InvalidProductError",
                                                 !.trace = <<"glob", "raise">>]
               ELSE /\ pc' = "read_file"
                    /\ res' = [Wgs84Frame EXCEPT !.extent_file = "path",
                                                 !.trace = <<"glob">>]
    /\ UNCHANGED <<idx, bands, out, prod, band_arr, wanted, def_nodata, ret, log>>

\* extent_file = zip_ds.open(list(filter(regex.match, filenames))[0]); the
\* IndexError of an empty list closes the archive on its way out
ZipOpen ==
    /\ pc = "with"
    /\ IF self.kml = "missing"
       THEN /\ pc' = "object"
            /\ self' = [self EXCEPT !.zip_ds = "closed"]
            /\ res' = [res EXCEPT !.raised = "InvalidProductError",
                                  !.trace = @ \o <<"close", "raise">>]
       ELSE /\ pc' = "exit"
            /\ self' = self
            /\ res' = [res EXCEPT !.extent_file = "member", !.trace = Append(@, "open")]
    /\ UNCHANGED <<idx, bands, out, prod, band_arr, wanted, def_nodata, ret, log>>

\* the end of the with block: the archive is closed
ZipExit ==
    /\ pc = "exit"
    /\ pc' = "read_file"
    /\ self' = [self EXCEPT !.zip_ds = "closed"]
    /\ res' = [res EXCEPT !.trace = Append(@, "close")]
    /\ UNCHANGED <<idx, bands, out, prod, band_arr, wanted, def_nodata, ret, log>>

\* product_kml = gpd.read_file(extent_file), and the extent is returned
GpdReadFile ==
    /\ pc = "read_file"
    /\ pc' = "object"
    /\ \E raised \in ReadFile(res.extent_file, self.zip_ds) :
        res' = [res EXCEPT !.raised = raised,
                           !.value = IF raised = "" THEN [k |-> "extent"] ELSE None,
                           !.zip_at_read = self.zip_ds,
                           !.io = 1,
                           !.trace = @ \o <<"read", IF raised = "" THEN "return" ELSE "raise">>]
    /\ UNCHANGED <<idx, bands, out, prod, band_arr, wanted, def_nodata, ret, log, self>>

\* RADARSAT-2 products of every sensor mode and product type
InitRs2 ==
    /\ InitOthers
    /\ pc = "object"
    /\ res = NoRes
    /\ self \in {Rs2(a, x, k, m, t) :
                    a \in BOOLEAN, x \in Rs2Xmls, k \in {"missing", "vector"},
                    m \in Rs2SensorMode, t \in Rs2ProductType}

NextRs2 ==
    Rs2ReadMtd \/ Rs2SetResolution \/ Wgs84Extent \/ ZipOpen \/ ZipExit \/ GpdReadFile


(***************************************************************************)
(* s3_product.py: get_datetime.  The metadata of a Sentinel-3 product are  *)
(* the global attributes of its tie point NetCDF file; start_time is a     *)
(* string such as 2019-11-15T23:37:22.283164Z, or is not there.            *)
(***************************************************************************)
\* a start_time attribute, frac being the digits of the fraction
IsoChars(Y, m, d, H, M, S, frac) ==
    Decimal(Y) \o <<"-">> \o TwoDigits(m) \o <<"-">> \o TwoDigits(d) \o <<"T">>
        \o TwoDigits(H) \o <<":">> \o TwoDigits(M) \o <<":">> \o TwoDigits(S)
        \o <<".">> \o frac \o <<"Z">>

\* datetime.strptime(acq_date, "%Y-%m-%dT%H:%M:%S.%fZ") of a string: the
\* date without its fraction, or ValueError
s3_strptime(acq_date) ==
    LET n == Len(acq_date)
    IN  IF \/ n < 22 \/ n > 27
           \/ acq_date[5] # "-" \/ acq_date[8] # "-" \/ acq_date[11] # "T"
           \/ acq_date[14] # ":" \/ acq_date[17] # ":" \/ acq_date[20] # "."
           \/ acq_date[n] # "Z"
           \/ \E i \in (1 .. n - 1) \ {5, 8, 11, 14, 17, 20} : ~IsDigit(acq_date[i])
        THEN BadDate
        ELSE LET Y == ToInt(SubSeq(acq_date, 1, 4))
                 m == ToInt(SubSeq(acq_date, 6, 7))
                 d == ToInt(SubSeq(acq_date, 9, 10))
                 H == ToInt(SubSeq(acq_date, 12, 13))
                 M == ToInt(SubSeq(acq_date, 15, 16))
                 S == ToInt(SubSeq(acq_date, 18, 19))
             IN  IF /\ Y >= 1
                    /\ m \in 1 .. 12
                    /\ d \in 1 .. DaysIn(Y, m)
                    /\ H < 24 /\ M < 60 /\ S < 60
                 THEN Date(Y, m, d, H, M, S)
                 ELSE BadDate

\* a Sentinel-3 product with its tie point file and its start_time attribute
S3Nc(mid_lat, mid_lon, tie_geo_file, start_time) ==
    [tie_geo_file |-> tie_geo_file, start_time |-> start_time] @@ S3(mid_lat, mid_lon)

\* S3Product._read_mtd: the attributes the file has become elements
s3_read_mtd(o) ==
    IF ~o.tie_geo_file THEN Result("InvalidProductError", None, <<>>, 0, {})
    ELSE Result("", [start_time |-> o.start_time], <<>>, 1, {})

\* S3Product.get_datetime: findtext gives None for an element that is not
\* there and raises nothing; strptime(None, ...) is TypeError
s3_get_datetime(o, as_datetime) ==
    LET r == s3_read_mtd(o)
    IN  IF r.raised # "" THEN r
        ELSE LET acq_date == r.value.start_time
             IN  IF acq_date.k = "None" THEN Result("TypeError", None, <<>>, r.io, {})
                 ELSE LET date == s3_strptime(acq_date.s)
                      IN  IF date.k = "ValueError"
                          THEN Result("ValueError", None, <<>>, r.io, {})
                          ELSE IF as_datetime THEN Result("", date, <<>>, r.io, {})
                          ELSE Result("", strftime(date), <<>>, r.io, {})

\* prod.get_datetime(as_datetime) of a Sentinel-3 product
S3GetDatetime ==
    /\ pc = "object"
    /\ self.family = "S3"
    /\ \E as_datetime \in BOOLEAN :
        LET q == s3_get_datetime(self, as_datetime)
        IN  res' = [op |-> "get_datetime", args |-> <<as_datetime>>, raised |-> q.raised,
                    value |-> q.value, io |-> q.io, log |-> q.log, hit |-> FALSE]
    /\ UNCHANGED <<pc, idx, bands, out, prod, band_arr, wanted, def_nodata, ret, log, self>>

\* the start_time attributes: not there, no date, and four acquisition times
StartTimes ==
    {NoText, Word(<<"n", "/", "a">>),
     Word(IsoChars(2019, 11, 15, 23, 37, 22, <<"2", "8", "3", "1", "6", "4">>)),
     Word(IsoChars(2020, 2, 29, 0, 0, 0, <<"0">>)),
     Word(IsoChars(2021, 1, 1, 0, 0, 9, <<"5", "0", "0">>)),
     Word(IsoChars(2021, 2, 30, 10, 10, 10, <<"0", "0", "0", "0", "0", "0">>))}

\* Sentinel-3 products with and without their tie point file
InitS3 ==
    /\ InitOthers
    /\ pc = "object"
    /\ res = NoRes
    /\ self \in {S3Nc(lat, lon, g, t) :
                    lat \in {-10, 0, 48}, lon \in {-180, 7, 179}, g \in BOOLEAN,
                    t \in StartTimes}

NextS3 == Crs \/ S3GetDatetime


(***************************************************************************)
(* s2_product.py: the processing baseline.  __init__ sets it to None (-1   *)
(* here), _post_init reads it from the fourth field of the product name,   *)
(* and the mask operations pick their strategy from it.                    *)
(***************************************************************************)
\* how many operations are called on a product at most
MaxCalls == 2

\* the fourth field of a product name: N0209, N0399, N0400, N0509
BaselineFields ==
    {<<"N", "0", "2", "0", "9">>, <<"N", "0", "3", "9", "9">>,
     <<"N", "0", "4", "0", "0">>, <<"N", "0", "5", "0", "9">>}

\* the mask files of a product: GML masks, JP2 masks, or both
GmlSets ==
    {NoGml} \cup
    {Gml(Layer(d), Layer(nd), Layer({}), Layer({}), Layer({}), Layer(c)) :
        d \in {{}, {Feature("detector_footprint", "", {p \in Pixels : p[2] < Width - 1})}},
        nd \in {{}, {Feature("QT_NODATA_PIXELS", "", {<<0, 0>>})}},
        c \in {{Feature("", "OPAQUE", {<<0, 0>>})}}}

Jp2Sets ==
    {NoJp2} \cup
    {Jp2(FootprintRaster(sh), Raster(QualitPlanes, q), Raster(ClassiPlanes, {<<2, <<0, 0>>>>})) :
        sh \in FootprintShapes, q \in {{}, {<<3, <<0, 0>>>>}}}

\* the call of a method of the product that is not a mask operation
StrategyFrame(op, r, calls) == [op |-> op, raised |-> r.raised, value |-> r.value, calls |-> calls]

\* _post_init: self._processing_baseline = float(self.split_name[3][1:]) / 100
PostInit ==
    /\ pc = "__init__"
    /\ pc' = "ready"
    /\ prod' = [prod EXCEPT !.baseline = ProcessingBaseline(ToInt(Tail(self.split_name[4])))]
    /\ UNCHANGED <<idx, bands, out, band_arr, wanted, def_nodata, ret, log, self, res>>

\* prod.footprint(); its cache keeps the value of the first call
Footprint ==
    /\ pc = "ready"
    /\ prod # NoProduct
    /\ self.family = "S2/name"
    /\ LET r == footprint(prod)
       IN  /\ res' = StrategyFrame("footprint", r, res.calls)
           /\ ret' = [NoRet EXCEPT !.op = "footprint", !.raised = r.raised]
    /\ pc' = "done"
    /\ UNCHANGED <<idx, bands, out, prod, band_arr, wanted, def_nodata, log, self>>

\* the caller goes on with another operation on the same product
NextCall ==
    /\ pc = "done"
    /\ self.family = "S2/name"
    /\ res.calls < MaxCalls
    /\ pc' = "ready"
    /\ res' = [res EXCEPT !.calls = @ + 1]
    /\ UNCHANGED <<idx, bands, out, prod, band_arr, wanted, def_nodata, ret, log, self>>

\* products of every baseline, before _post_init
InitStrategy ==
    /\ pc = "__init__"
    /\ idx = ""
    /\ bands = <<>>
    /\ out = NoCall
    /\ prod \in {[baseline |-> -1, gml |-> g, jp2 |-> j] : g \in GmlSets, j \in Jp2Sets}
    /\ band_arr \in BandArrays
    /\ wanted \in {<<>>, <<"CLOUDS">>}
    /\ def_nodata = NoMask
    /\ ret = NoRet
    /\ log = <<>>
    /\ self \in {[family |-> "S2/name", split_name |-> <<"S2A", "MSIL1C", "", f>>] :
                    f \in BaselineFields}
    /\ res = StrategyFrame("", [raised |-> "", value |-> {}], 1)

NextStrategy ==
    PostInit \/ ManageInvalidPixels \/ ManageNodata \/ OpenClouds \/ Footprint \/ NextCall


(***************************************************************************)
(* s2_product.py: the condensed name.  The name of a product ends with the *)
(* time it was generated at; the strings are sequences of characters.      *)
(***************************************************************************)
RECURSIVE Join(_, _)
\* sep.join(parts)
Join(parts, sep) ==
    IF Len(parts) = 1 THEN parts[1]
    ELSE parts[1] \o sep \o Join(Tail(parts), sep)

RECURSIVE LastPart(_, _)
\* cs.split(sep)[-1]: what follows the last sep of cs, cs when it has none
LastPart(cs, sep) ==
    IF cs = <<>> THEN <<>>
    ELSE IF cs[Len(cs)] = sep THEN <<>>
    ELSE Append(LastPart(SubSeq(cs, 1, Len(cs) - 1), sep), cs[Len(cs)])

\* the tile name of the product name: T, zone, latitude band and the 100 km
\* square, which is TK for every product drawn
TileChars(tile_name) ==
    <<"T">> \o TwoDigits(tile_name.utm_nb) \o <<tile_name.utm_letter, "T", "K">>

ProductTypeChars(product_type) ==
    IF product_type = "L1C" THEN <<"L", "1", "C">> ELSE <<"L", "2", "A">>

\* a Sentinel-2 product whose name ends with generation
S2Named(product_type, sensing_time, tile_name, generation) ==
    [generation |-> generation, condensed_name |-> <<>>]
        @@ [S2(product_type, 209) EXCEPT !.sensing_time = sensing_time,
                                         !.tile_name = tile_name,
                                         !.constructed = TRUE]

\* S2Product._get_condensed_name:
\* {date}_{constellation}_{tile}_{product_type}_{gen_time}, gen_time being
\* split_name[-1].split("T")[-1]
get_condensed_name(o) ==
    LET r == get_datetime(o, FALSE)
        gen_time == LastPart(o.generation, "T")
    IN  IF r.raised # "" THEN r
        ELSE [r EXCEPT !.value = Join(<<r.value, <<"S", "2">>, TileChars(o.tile_name),
                                        ProductTypeChars(o.product_type), gen_time>>,
                                      <<"_">>)]

\* prod._get_condensed_name(); condensed_name keeps the name of the first call
GetCondensedName ==
    /\ pc = "object"
    /\ self.family = "S2"
    /\ "generation" \in DOMAIN self
    /\ LET q == get_condensed_name(self)
       IN  /\ res' = [op |-> "_get_condensed_name", args |-> <<self.condensed_name>>,
                      raised |-> q.raised, value |-> q.value, io |-> q.io, log |-> q.log,
                      hit |-> FALSE]
           /\ self' = [self EXCEPT !.condensed_name =
                                        IF @ = <<>> /\ q.raised = "" THEN q.value ELSE @]
    /\ UNCHANGED <<pc, idx, bands, out, prod, band_arr, wanted, def_nodata, ret, log>>

\* generation times: two of the same day, and two of other days at the
\* time of day of the first
GenerationTimes ==
    {Chars(2020, 8, 24, 15, 4, 32), Chars(2020, 8, 24, 15, 4, 33),
     Chars(2020, 8, 25, 15, 4, 32), Chars(2021, 1, 2, 15, 4, 32)}

NamedProducts ==
    {S2Named(t, s, tile, g) :
        t \in S2ProductType,
        s \in {Chars(2020, 8, 24, 11, 6, 31), Chars(2019, 12, 31, 23, 59, 59)},
        tile \in TileNames, g \in GenerationTimes}

InitNames ==
    /\ InitOthers
    /\ pc = "object"
    /\ res = NoRes
    /\ self \in NamedProducts

NextNames == GetCondensedName \/ GetDatetime


(***************************************************************************)
(* s2_product.py: _read_band.  band is the .jp2 file at its path in the    *)
(* product, copy the file of the same name in the writable band folder;    *)
(* written tells that a file was opened in "r+" mode, copies counts the    *)
(* calls of files.copy, reads the calls of _read_band.                     *)
(***************************************************************************)
S2Band(baseline, georeferenced, corrupted, mtd, copied) ==
    [family |-> "S2/IMG_DATA", baseline |-> ProcessingBaseline(baseline), mtd |-> mtd,
     band |-> [crs |-> georeferenced, corrupted |-> corrupted, written |-> FALSE],
     copy |-> [is_file |-> copied, crs |-> FALSE, written |-> FALSE],
     copies |-> 0, reads |-> 0]

\* _l2ap_geocode_data: the transform and the CRS of the tile metadata;
\* int(None) is TypeError when the size of the band is not in the file
l2ap_geocode_data(o) ==
    CASE o.mtd = "unreadable" -> "InvalidProductError"
      [] o.mtd = "no size" -> "TypeError"
      [] OTHER -> ""

\* a reading that writes the CRS and the transform into the band file itself
read_band_in_place(o, path) ==
    IF o.baseline < 207 /\ path = "jp2"
    THEN IF o.band.corrupted THEN [raised |-> "InvalidProductError", value |-> "", o |-> o]
         ELSE IF o.band.crs THEN [raised |-> "", value |-> "band", o |-> o]
         ELSE LET geocode == l2ap_geocode_data(o)
              IN  [raised |-> geocode,
                   value |-> IF geocode = "" THEN "band" ELSE "",
                   o |-> [o EXCEPT !.band.written = TRUE,
                                   !.band.crs = (geocode = "")]]
    ELSE [raised |-> "", value |-> IF path = "jp2" THEN "band" ELSE "clean", o |-> o]

\* S2Product._read_band on a local path: what is raised, the file that is
\* read (the band, its copy, or a clean band), and the files afterwards
read_band(o, path) ==
    IF o.baseline < 207 /\ path = "jp2"
    THEN IF o.band.corrupted THEN [raised |-> "InvalidProductError", value |-> "", o |-> o]
         ELSE IF o.band.crs THEN [raised |-> "", value |-> "band", o |-> o]
         ELSE LET geocode == l2ap_geocode_data(o)
                  copied == ~o.copy.is_file
              IN  [raised |-> geocode,
                   value |-> IF geocode = "" THEN "copy" ELSE "",
                   o |-> [o EXCEPT !.copies = IF copied THEN @ + 1 ELSE @,
                                   !.copy.is_file = TRUE,
                                   !.copy.written = TRUE,
                                   !.copy.crs = IF geocode = "" THEN TRUE ELSE @]]
    ELSE [raised |-> "", value |-> IF path = "jp2" THEN "band" ELSE "clean", o |-> o]

\* prod._read_band(path, band)
ReadBand ==
    /\ pc = "object"
    /\ self.family = "S2/IMG_DATA"
    /\ self.reads < MaxCalls
    /\ \E path \in {"jp2", "tif"} :
        LET q == read_band(self, path)
        IN  /\ self' = [q.o EXCEPT !.reads = @ + 1]
            /\ res' = [op |-> "_read_band", args |-> <<path>>, raised |-> q.raised,
                       value |-> q.value, io |-> 1, log |-> <<>>, hit |-> FALSE]
    /\ UNCHANGED <<pc, idx, bands, out, prod, band_arr, wanted, def_nodata, ret, log>>

\* products before and after the baseline 02.07, with bands of every state
InitReadBand ==
    /\ InitOthers
    /\ pc = "object"
    /\ res = NoRes
    /\ self \in {S2Band(n, g, c, m, d) :
                    n \in {206, 207, 209}, g \in BOOLEAN, c \in BOOLEAN,
                    m \in {"unreadable", "no size", "complete"}, d \in BOOLEAN}

NextReadBand == ReadBand


vars == <<pc, idx, bands, out, prod, band_arr, wanted, def_nodata, ret, log, self, res>>

NextIndex == Evaluate

NextMask == ManageInvalidPixels \/ ManageNodata

NextClouds == OpenClouds

SpecIndex == InitIndex /\ [][NextIndex]_vars

SpecMask == InitMask /\ [][NextMask]_vars

SpecClouds == InitClouds /\ [][NextClouds]_vars

SpecMetadata == InitMetadata /\ [][NextMetadata]_vars

SpecReflectance == InitReflectance /\ [][NextReflectance]_vars

SpecBandPaths == InitBandPaths /\ [][NextBandPaths]_vars

SpecAccessors == InitAccessors /\ [][NextAccessors]_vars

SpecOpenMask == InitOpenMask /\ [][NextOpenMask]_vars

SpecRs2 == InitRs2 /\ [][NextRs2]_vars

SpecS3 == InitS3 /\ [][NextS3]_vars

SpecStrategy == InitStrategy /\ [][NextStrategy]_vars

SpecNames == InitNames /\ [][NextNames]_vars

SpecReadBand == InitReadBand /\ [][NextReadBand]_vars

Init ==
    \/ InitIndex \/ InitMask \/ InitClouds
    \/ InitMetadata \/ InitReflectance \/ InitBandPaths \/ InitAccessors
    \/ InitOpenMask \/ InitRs2 \/ InitS3 \/ InitStrategy \/ InitNames \/ InitReadBand

Next ==
    \/ Evaluate \/ ManageInvalidPixels \/ ManageNodata \/ OpenClouds
    \/ Construct \/ GetMeanSunAngles \/ GetCloudCover \/ GetOrbitDirection
    \/ Crs \/ GetDatetime \/ GetBandPaths \/ ToReflectance
    \/ TemporaryDirectory \/ GetMaskPath \/ ReadVector \/ Cleanup \/ ReturnMask
    \/ Rs2ReadMtd \/ Rs2SetResolution \/ Wgs84Extent \/ ZipOpen \/ ZipExit \/ GpdReadFile
    \/ S3GetDatetime \/ PostInit \/ Footprint \/ NextCall \/ GetCondensedName \/ ReadBand

Spec == Init /\ [][Next]_vars

(***************************************************************************)
(* Properties of the index module (SpecIndex)                              *)
(***************************************************************************)
AllBandsGiven == get_needed_bands(idx) \subseteq DOMAIN bands

IsValid(v) == v.k # "nan"

\* C1: for every pixel where NIR and RED are both valid, NDVI returns
\* (NIR - RED) / (NIR + RED); where NIR or RED is invalid it returns the
\* nodata sentinel (NaN).
C1_NdviIsNormalizedDifference ==
    (pc = "done" /\ idx = "NDVI" /\ AllBandsGiven) =>
        /\ out.raised = ""
        /\ out.data = IF IsValid(bands["NIR"]) /\ IsValid(bands["RED"])
                      THEN Divide(Sub(bands["NIR"], bands["RED"]),
                                  Add(bands["NIR"], bands["RED"]))
                      ELSE NaN

\* the denominators of the divisions an index function makes
Denominators(name, b) ==
    CASE name = "RGI" -> {b["GREEN"]}
      [] name = "NDVI" -> {b["RED"]}
      [] name = "NDRE2" -> {Add(b["NIR"], b["VRE_1"])}
      [] name = "NDRE3" -> {Add(b["NIR"], b["VRE_2"])}
      [] name = "GLI" -> {Mul(F(2, 1), Add(Add(b["GREEN"], b["RED"]), b["BLUE"]))}
      [] name = "GNDVI" -> {Add(b["NIR"], b["GREEN"])}
      [] name = "RI" -> {Add(b["VRE_1"], b["GREEN"])}
      [] name = "NDGRI" -> {Add(b["GREEN"], b["RED"])}
      [] name = "CIG" -> {b["GREEN"]}
      [] name = "NDMI" -> {Add(b["NIR"], b["SWIR_1"])}
      [] name = "DSWI" -> {Add(b["SWIR_1"], b["RED"])}
      [] name = "SRSWIR" -> {b["SWIR_2"]}
      [] name = "RDI" -> {b["NARROW_NIR"]}
      [] name = "NDWI" -> {Add(b["GREEN"], b["NIR"])}
      [] name = "BAI" -> {Add(Sq(Sub(F(1, 10), b["RED"])), Sq(Sub(F(6, 100), b["NIR"])))}
      [] name = "NBR" -> {Add(b["NARROW_NIR"], b["SWIR_2"])}
      [] name = "MNDWI" -> {Add(b["GREEN"], b["SWIR_1"])}
      [] name = "AFRI_1_6" -> {Add(b["NIR"], Mul(F(66, 100), b["SWIR_1"]))}
      [] name = "AFRI_2_1" -> {Add(b["NIR"], Mul(F(5, 10), b["SWIR_2"]))}
      [] name = "BSI" -> {Add(Add(b["RED"], b["SWIR_1"]), Add(b["NIR"], b["BLUE"]))}
      [] OTHER -> {}

ZeroDenominator == AllBandsGiven /\ \E v \in Denominators(idx, bands) : IsZero(v)

\* C2: for every index function and every pixel whose denominator is zero,
\* the evaluation does not raise and the pixel of the result is the nodata
\* sentinel (NaN), not an infinity.
C2_ZeroDenominatorGivesNodata ==
    (pc = "done" /\ ZeroDenominator) => (out.raised = "" /\ out.data = NaN)

\* C3 as stated: an index evaluated on a dict that lacks a band it needs
\* fails with MissingBandError.
C3_MissingBandError ==
    (pc = "done" /\ ~AllBandsGiven) => out.raised = "MissingBandError"

\* C3, amended: an index evaluated on a dict that lacks a band it needs fails
\* with KeyError, the error of the dict lookup, and with no other error; with
\* every needed band in the dict it does not fail.
C3_MissingBandIsKeyError ==
    pc = "done" => out.raised = (IF AllBandsGiven THEN "" ELSE "KeyError")

C3_Witness ==
    /\ pc = "done"
    /\ idx = "TCBRI"
    /\ DOMAIN bands = get_needed_bands("TCBRI") \ {"SWIR_2"}
    /\ out.raised = "KeyError"

(***************************************************************************)
(* Properties of the Sentinel-2 invalid-pixel masks (SpecMask)             *)
(***************************************************************************)
Done(op) == pc = "done" /\ ret.op = op

Lt40 == IsLt40(prod.baseline)

Covered(rows) == UNION {f.px : f \in rows}

\* the pixels inside the polygons the operation means to mask
NodataPixels == Covered({f \in prod.gml["NODATA"].rows : f.gml_id = "QT_NODATA_PIXELS"})

DefectPixels == Covered(prod.gml["DEFECT"].rows)

SaturationPixels == Covered(prod.gml["SATURA"].rows)

TecquaPixels ==
    Covered({f \in prod.gml["TECQUA"].rows : f.gml_id \in {"MSI_LOST", "MSI_DEG"}})

AuxiliaryPixels == NodataPixels \cup DefectPixels \cup SaturationPixels \cup TecquaPixels

\* C4: in the vector strategy every pixel inside a polygon of the DEFECT
\* layer, of the SATURATION layer or of the MSI_LOST / MSI_DEG polygons of
\* the technical quality layer is invalid in the mask passed on.
C4_DefectSaturationQualityMasked ==
    (Done("_manage_invalid_pixels") /\ Lt40 /\ ret.raised = "") =>
        (DefectPixels \cup SaturationPixels \cup TecquaPixels) \subseteq ret.invalid

\* C5: in the vector strategy a pixel inside the detector footprint and
\* outside every selected auxiliary polygon stays valid.
C5_OnlyAuxiliaryPixelsAdded ==
    (Done("_manage_invalid_pixels") /\ Lt40 /\ ret.raised = "") =>
        \A p \in Pixels :
            (p \in Covered(prod.gml["DETFOO"].rows) /\ p \notin AuxiliaryPixels)
                => p \notin ret.invalid

\* C6: in the raster strategy a pixel is invalid if and only if the detector
\* footprint raster is 0 there or one of the quality planes 3, 4, 5, 6, 8 is
\* not 0 there.
C6_RasterMask ==
    (Done("_manage_invalid_pixels") /\ ~Lt40 /\ ret.raised = "") =>
        ret.invalid =
            {p \in Pixels :
                \/ prod.jp2["DETFOO"].data[p] = 0
                \/ \E plane \in {3, 4, 5, 6, 8} : prod.jp2["QUALIT"].data[<<plane, p>>] # 0}

\* plane 8 flags <<0, 0>>, plane 7 flags the opposite corner: only <<0, 0>> is invalid
C6_Witness ==
    /\ Done("_manage_invalid_pixels")
    /\ ~Lt40
    /\ prod.jp2["QUALIT"].data[<<8, <<0, 0>>>>] = 1
    /\ prod.jp2["QUALIT"].data[<<7, <<Height - 1, Width - 1>>>>] = 1
    /\ ret.invalid = {<<0, 0>>}

EmptyDetfoo == prod.gml["DETFOO"].present /\ prod.gml["DETFOO"].rows = {}

NullPixels == {p \in Pixels : band_arr[p] = 0}

\* C7: with an empty DETFOO layer, _manage_invalid_pixels and _manage_nodata
\* take for the footprint mask exactly the pixels whose value is 0, and log a
\* warning; that mask is the one _manage_nodata passes on, and the one
\* _manage_invalid_pixels passes on when no auxiliary polygon is selected.
C7_EmptyFootprintFallback ==
    (pc = "done" /\ Lt40 /\ EmptyDetfoo
        /\ ret.op \in {"_manage_invalid_pixels", "_manage_nodata"}) =>
        /\ log = <<EmptyDetfooWarning>>
        /\ ret.raised = "" => FlaggedInt(ret.det) = NullPixels
        /\ ret.op = "_manage_nodata" => (ret.raised = "" /\ ret.invalid = NullPixels)
        /\ (ret.raised = "" /\ AuxiliaryPixels = {}) => ret.invalid = NullPixels

C7_Witness ==
    /\ Done("_manage_invalid_pixels")
    /\ Lt40
    /\ EmptyDetfoo
    /\ band_arr[<<0, 0>>] = 0
    /\ ret.raised = ""
    /\ ret.invalid = {<<0, 0>>}
    /\ log = <<EmptyDetfooWarning>>

AuxiliaryLayers == {"NODATA", "DEFECT", "SATURA", "TECQUA"}

AuxiliaryWarning == \E i \in 1 .. Len(log) : log[i] # EmptyDetfooWarning

CloudSet(v) == IF Lt40 THEN v = MaskTrue ELSE v # 0

\* C9: a pixel of ALL_CLOUDS is set if and only if it is set in the CLOUDS
\* band or in the CIRRUS band of the same call.
C9_AllCloudsIsUnion ==
    (Done("_open_clouds") /\ ret.raised = ""
        /\ {"ALL_CLOUDS", "CLOUDS", "CIRRUS"} \subseteq DOMAIN ret.band_dict) =>
        \A p \in Pixels :
            CloudSet(ret.band_dict["ALL_CLOUDS"][p])
                <=> (CloudSet(ret.band_dict["CLOUDS"][p])
                        \/ CloudSet(ret.band_dict["CIRRUS"][p]))

C9_Witness ==
    /\ Done("_open_clouds")
    /\ Lt40
    /\ wanted = <<"ALL_CLOUDS", "CLOUDS", "CIRRUS">>
    /\ ret.raised = ""
    /\ ret.band_dict["CLOUDS"][<<Height - 1, Width - 1>>] = MaskTrue
    /\ ret.band_dict["CIRRUS"][<<Height - 1, Width - 1>>] = MaskFalse
    /\ ret.band_dict["CIRRUS"][<<0, 0>>] = MaskNodata
    /\ ret.band_dict["ALL_CLOUDS"][<<Height - 1, Width - 1>>] = MaskTrue

CloudMaskRead ==
    IF Lt40 THEN prod.gml["CLOUDS"].present ELSE prod.jp2["CLASSI"].present

Degraded == self.family = "S2" /\ self.constructed /\ ~self.mtd.readable

Logged(warning) == \E i \in 1 .. Len(log) : log[i] = warning

\* C11: the construction of a product whose tile metadata cannot be read
\* does not fail and logs a warning; on that product get_cloud_cover returns
\* 0 and logs a warning, and get_band_paths returns the paths of the bands
\* whose files are in the product.
C11_DegradedMode ==
    /\ res.op = "__init__" =>
          /\ res.raised = ""
          /\ ~self.mtd.readable => log = <<CorruptedWarning>>
    /\ Degraded => (log # <<>> /\ log[1] = CorruptedWarning)
    /\ (Degraded /\ res.op = "get_cloud_cover") =>
          /\ res.raised = ""
          /\ res.value = Zero
          /\ Logged(CloudCoverWarning)
    /\ (Degraded /\ res.op = "get_band_paths") =>
          /\ res.raised = ""
          /\ DOMAIN res.value = Listed(res.args[1])

C11_Witness ==
    /\ Degraded
    /\ log = <<CorruptedWarning, CloudCoverWarning>>
    /\ "get_cloud_cover" \in DOMAIN self.memo
    /\ res.op = "get_band_paths"
    /\ res.args = <<<<"RED", "VRE_1">>, 20>>
    /\ res.value["VRE_1"] = Jp2Path(Dir(20), "VRE_1")

\* the value the metadata lookup falls back on
SunAnglesMissing ==
    \/ ~self.mtd.readable
    \/ ~self.mtd.Mean_Sun_Angle.present
    \/ self.mtd.Mean_Sun_Angle.ZENITH_ANGLE.k # "number"
    \/ self.mtd.Mean_Sun_Angle.AZIMUTH_ANGLE.k # "number"

CloudCoverMissing ==
    ~self.mtd.readable \/ self.mtd.CLOUDY_PIXEL_PERCENTAGE.k # "number"

OrbitDirectionMissing ==
    \/ ~self.datatake.readable
    \/ self.datatake.SENSING_ORBIT_DIRECTION.k # "word"
    \/ self.datatake.SENSING_ORBIT_DIRECTION.s \notin OrbitDirection

\* C12: get_mean_sun_angles, get_cloud_cover and get_orbit_direction never
\* raise: when the metadata file, the element or its value is missing or
\* malformed they return (0, 0), 0 and the default orbit direction.
C12_LookupsNeverRaise ==
    /\ res.op \in {"get_mean_sun_angles", "get_cloud_cover", "get_orbit_direction"}
          => res.raised = ""
    /\ (res.op = "get_mean_sun_angles" /\ SunAnglesMissing) => res.value = <<Zero, Zero>>
    /\ (res.op = "get_cloud_cover" /\ CloudCoverMissing) => res.value = Zero
    /\ (res.op = "get_orbit_direction" /\ OrbitDirectionMissing) => res.value = "DESCENDING"

\* the call put a default in the place of a value the metadata does not give
Substituted ==
    /\ res.raised = ""
    /\ ~res.hit
    /\ \/ res.op = "get_mean_sun_angles" /\ SunAnglesMissing
       \/ res.op = "get_cloud_cover" /\ CloudCoverMissing
       \/ res.op = "get_orbit_direction" /\ OrbitDirectionMissing

\* C13: a call that substitutes a fallback value for unavailable metadata
\* logs a warning before it returns.
C13_FallbackIsLogged == Substituted => res.log # <<>>

(***************************************************************************)
(* Properties of the reflectance conversion (SpecReflectance)              *)
(***************************************************************************)
\* the last call converted a .jp2 band
Converting == res.op = "_to_reflectance" /\ res.args[2] = "jp2"

\* the texts of the calibration fields the conversion of the band reads
QuantifText == self.datatake.QUANTIFICATION_VALUE

OffsetText ==
    FindOffset(self.datatake, IF res.args[3] = "NIR" THEN 8 ELSE ToInt(BandId[res.args[3]]))

\* the datatake metadata is read and gives the fields the conversion needs
CalibrationGiven ==
    /\ self.datatake.readable
    /\ QuantifText.k = "number"
    /\ IsLt40(self.baseline) \/ OffsetText.k = "number"

\* C14: when the datatake metadata is readable and a calibration field the
\* conversion needs is missing or malformed, the conversion raises
\* InvalidMetadataError.
C14_MalformedCalibrationRaises ==
    (Converting /\ self.datatake.readable /\ ~CalibrationGiven) =>
        res.raised = "InvalidMetadataError"

\* the offset and the quantification value a conversion is to use
SelectedOffset ==
    IF IsLt40(self.baseline) THEN F(0, 1)
    ELSE IF CalibrationGiven THEN OffsetText.v ELSE F(-1000, 1)

SelectedQuantif == IF CalibrationGiven THEN QuantifText.v ELSE F(10000, 1)

\* C15: a converted pixel is (raw + offset) / quantification value, for the
\* offset and the quantification value of the metadata or of the fallback
\* pair, and raw is calibrated * quantification value - offset (on exact
\* fractions: the rounding of astype(float32) is left out).
C15_ReflectanceRoundTrip ==
    (Converting /\ res.raised = "") =>
        /\ res.value.offset = SelectedOffset
        /\ res.value.quantif_value = SelectedQuantif
        /\ res.value.band_arr = Divide(Add(res.args[1], SelectedOffset), SelectedQuantif)
        /\ Sub(Mul(res.value.band_arr, SelectedQuantif), SelectedOffset) = res.args[1]

C15_Witness ==
    /\ Converting
    /\ ~IsLt40(self.baseline)
    /\ res.args = <<F(4096, 1), "jp2", "NIR">>
    /\ QuantifText = Number(F(2000, 1))
    /\ OffsetText = Number(F(-500, 1))
    /\ res.value.band_arr = F(899, 500)

\* C16: after a conversion of a band returned, no_data_val[band] is recorded
\* and is (base_no_data_val + offset) / quantification value, whatever the
\* path of the band.
C16_NodataValueRecorded ==
    (res.op = "_to_reflectance" /\ res.raised = "") =>
        /\ res.args[3] \in DOMAIN self.no_data_val
        /\ Converting =>
              self.no_data_val[res.args[3]] =
                  Divide(Add(F(self.base_no_data_val, 1), SelectedOffset), SelectedQuantif)

(***************************************************************************)
(* Properties of the band paths (SpecBandPaths)                            *)
(***************************************************************************)
\* C17: get_band_paths fails with BandNotFoundError, and with nothing else,
\* when the folder or the file of a requested band is not in the product.
C17_BandNotFoundError ==
    res.op = "get_band_paths" =>
        /\ res.raised \in {"", "BandNotFoundError"}
        /\ res.raised = "" =>
              \A b \in Listed(res.args[1]) :
                  b \in self.clean \/ \E f \in self.tree.files : f[2] = BandId[b]

\* the folders listed for a band of a L2A product, and their resolutions
ListedFor(b) == Listed(BandDirNamesL2A(BandId[b]))

\* the folder a returned path of band b lies in is d
SelectedIs(b, d) == res.value[b].kind = "jp2" => res.value[b].dir = d

L2APaths ==
    /\ res.op = "get_band_paths"
    /\ res.raised = ""
    /\ self.product_type = "L2A"

\* C18 as stated: the folder of band b at resolution r is R{r}m when it is
\* listed for b, else the listed folder whose resolution is the nearest to r.
C18_NearestFolder ==
    (L2APaths /\ res.args[2] # 0) =>
        \A b \in DOMAIN res.value :
            IF Dir(res.args[2]) \in ListedFor(b) THEN SelectedIs(b, Dir(res.args[2]))
            ELSE \A e \in ListedFor(b) :
                    res.value[b].kind = "jp2" =>
                        Abs(res.value[b].dir[2] - res.args[2]) <= Abs(e[2] - res.args[2])

\* C18, amended: the folder is R{r}m when it is listed for b; else, and
\* when no resolution is asked for, it is the first folder listed for b,
\* the one of the finest resolution.
C18_FirstFolder ==
    L2APaths =>
        \A b \in DOMAIN res.value :
            /\ IF res.args[2] # 0 /\ Dir(res.args[2]) \in ListedFor(b)
               THEN SelectedIs(b, Dir(res.args[2]))
               ELSE SelectedIs(b, BandDirNamesL2A(BandId[b])[1])
            /\ \A e \in ListedFor(b) : BandDirNamesL2A(BandId[b])[1][2] <= e[2]

C18_Witness ==
    /\ L2APaths
    /\ res.args = <<<<"RED", "VRE_1">>, 50>>
    /\ self.clean = {}
    /\ res.value["RED"].dir = Dir(10)
    /\ res.value["VRE_1"].dir = Dir(20)

\* C28: the id of every band of the L2A band map is a key of the folder
\* table, the folder R{GSD}m of its nominal GSD is listed for it, and a band
\* asked for at its nominal GSD is taken from that folder.
C28_NominalGsdFolder ==
    L2APaths =>
        /\ \A b \in DOMAIN BandId :
              /\ BandId[b] \in BandDirKeysL2A
              /\ Dir(BandGsd[b]) \in ListedFor(b)
        /\ \A b \in DOMAIN res.value :
              res.args[2] = BandGsd[b] => SelectedIs(b, Dir(BandGsd[b]))

(***************************************************************************)
(* Properties of crs and get_datetime (SpecAccessors)                      *)
(***************************************************************************)
\* C19: a call of crs() that follows one that returned gives the same value
\* and reads no file, in every product family.
C19_CrsIsMemoized ==
    (res.op = "crs" /\ res.raised = "" /\ res.args[1] # 0) =>
        (res.value = res.args[1] /\ res.io = 0)

\* C20: with no datetime set, get_datetime gives the time of the third field
\* of the product name, in the file metadata of any state and without
\* reading a file; its string form is the field itself, YYYYMMDDTHHMMSS.
C20_DatatakeTimeFromName ==
    (res.op = "get_datetime" /\ self.datetime = NoDate) =>
        /\ res.io = 0
        /\ strptime(self.sensing_time).k = "datetime" =>
              /\ res.raised = ""
              /\ IF res.args[1]
                 THEN /\ res.value.Y = ToInt(SubSeq(self.sensing_time, 1, 4))
                      /\ res.value.m = ToInt(SubSeq(self.sensing_time, 5, 6))
                      /\ res.value.d = ToInt(SubSeq(self.sensing_time, 7, 8))
                      /\ res.value.H = ToInt(SubSeq(self.sensing_time, 10, 11))
                      /\ res.value.M = ToInt(SubSeq(self.sensing_time, 12, 13))
                      /\ res.value.S = ToInt(SubSeq(self.sensing_time, 14, 15))
                 ELSE /\ res.value = self.sensing_time
                      /\ Len(res.value) = 15
                      /\ res.value[9] = "T"

C20_Witness ==
    /\ res.op = "get_datetime"
    /\ res.args = <<FALSE>>
    /\ ~self.mtd.readable
    /\ self.datetime = NoDate
    /\ self.sensing_time = Chars(2021, 1, 1, 0, 0, 9)
    /\ res.value = <<"2", "0", "2", "1", "0", "1", "0", "1", "T", "0", "0", "0", "0", "0", "9">>

\* C27: with a baseline < 2.07 and metadata that cannot be read, crs() is
\* the UTM CRS of the zone of the tile name in the hemisphere of its
\* latitude band: EPSG 326zz for the letters N to X, 327zz for C to M.
C27_FallbackHemisphere ==
    (/\ res.op = "crs"
     /\ self.family = "S2"
     /\ self.baseline < 207
     /\ ~self.mtd.readable) =>
        /\ res.raised = ""
        /\ res.value = IF Ord(self.tile_name.utm_letter) >= Ord("N")
                       THEN 32600 + self.tile_name.utm_nb
                       ELSE 32700 + self.tile_name.utm_nb

(***************************************************************************)
(* Properties of the temporary directory of _open_mask_lt_4_0              *)
(* (SpecOpenMask)                                                          *)
(***************************************************************************)
\* the position of an event in the trace of the call, 0 when it is not there
At(event) ==
    IF \E i \in 1 .. Len(res.trace) : res.trace[i] = event
    THEN CHOOSE i \in 1 .. Len(res.trace) : res.trace[i] = event
    ELSE 0

\* C21: when _open_mask_lt_4_0 returns or raises, the temporary directory it
\* created is removed, whatever the path taken; when it returns the mask,
\* the removal came after the vector was read into memory.
C21_TmpDirRemoved ==
    pc = "returned" =>
        /\ res.tmp_dir = "removed"
        /\ At("mkdtemp") < At("cleanup")
        /\ res.raised = "" => (res.mask = res.mask_id /\ 0 < At("read") /\ At("read") < At("cleanup"))
        /\ res.raised # "" => res.raised = "InvalidProductError"

C21_Witness ==
    /\ pc = "returned"
    /\ self.is_archived
    /\ res.raised = ""
    /\ res.trace = <<"mkdtemp", "extract", "read", "cleanup", "return">>
    /\ res.tmp_dir = "removed"


(***************************************************************************)
(* Properties of RADARSAT-2 products (SpecRs2)                             *)
(***************************************************************************)
\* C22: read_mtd of a product with no product.xml fails with
\* InvalidProductError, for a folder and for a zip archive alike.
C22_MissingXmlIsInvalidProduct ==
    (res.op = "read_mtd" /\ self.xml.k = "missing") => res.raised = "InvalidProductError"


\* the metadata give a pixel spacing _set_resolution can use
UsableSpacing ==
    /\ self.xml.k = "root"
    /\ self.xml.namespace
    /\ self.xml.imageAttributes
    /\ self.xml.rasterAttributes
    /\ self.xml.sampledPixelSpacing.k = "number"
    /\ ~IsZero(self.xml.sampledPixelSpacing.v)

\* C26: with no usable pixel spacing in the metadata, _set_resolution
\* returns a strictly positive default resolution, or raises
\* NotImplementedError or InvalidTypeError, for every sensor mode and
\* product type; nothing else is raised.
C26_SurvivalModeIsTotal ==
    (res.op = "_set_resolution" /\ ~UsableSpacing) =>
        \/ res.raised = "" /\ res.value.v.k = "num" /\ res.value.v.n > 0
        \/ res.raised \in {"NotImplementedError", "InvalidTypeError"}

\* C29: in wgs84_extent of an archived product, the member product.kml is
\* read while the archive is open: no read of its handle comes after the
\* archive is closed.
C29_ReadInsideArchive ==
    (res.op = "wgs84_extent" /\ res.extent_file = "member" /\ res.zip_at_read # "") =>
        res.zip_at_read = "open"

(***************************************************************************)
(* Properties of Sentinel-3 products (SpecS3)                              *)
(***************************************************************************)
\* C23: get_datetime of a product whose metadata has no start_time raises
\* InvalidProductError and no other exception.
C23_NoStartTimeIsInvalidProduct ==
    (res.op = "get_datetime" /\ self.family = "S3" /\ self.start_time.k = "None") =>
        res.raised = "InvalidProductError"


(***************************************************************************)
(* Properties of the processing baseline (SpecStrategy)                    *)
(***************************************************************************)
\* the baseline of the product name, in hundredths
NameBaseline == ToInt(Tail(self.split_name[4]))

\* C24: the processing baseline is the one of the product name from the
\* construction on, whatever is called afterwards, and _manage_invalid_pixels,
\* _manage_nodata, _open_clouds and footprint all run the vector (GML)
\* strategy when it is < 4.0 and the raster (JP2) one otherwise, N0400 included.
C24_OneStrategy ==
    /\ pc # "__init__" => prod.baseline = NameBaseline
    /\ pc = "done" =>
        LET vector == NameBaseline < 400
        IN  CASE ret.op = "_manage_invalid_pixels" ->
                    LET r == IF vector THEN manage_invalid_pixels_lt_4_0(prod, band_arr)
                             ELSE manage_invalid_pixels_gt_4_0(prod, band_arr)
                    IN  ret.raised = r.raised /\ ret.mask = r.mask
              [] ret.op = "_manage_nodata" ->
                    LET r == IF vector THEN manage_nodata_lt_4_0(prod, band_arr)
                             ELSE manage_nodata_gt_4_0(prod, band_arr)
                    IN  ret.raised = r.raised /\ ret.mask = r.mask
              [] ret.op = "_open_clouds" ->
                    LET r == IF vector THEN open_clouds_lt_4_0(prod, wanted, def_nodata)
                             ELSE open_clouds_gt_4_0(prod, wanted)
                    IN  ret.raised = r.raised /\ ret.band_dict = r.band_dict
              [] ret.op = "footprint" ->
                    LET det == IF vector THEN open_mask_lt_4_0(prod, "DETFOO")
                               ELSE open_mask_gt_4_0(prod, "DETFOO")
                    IN  /\ res.raised = det.raised
                        /\ det.raised = "" =>
                              res.value = IF vector THEN UNION {f.px : f \in det.rows}
                                          ELSE {q \in Pixels : det.data[q] # 0}

C24_Witness ==
    /\ pc = "done"
    /\ NameBaseline = 400
    /\ res.calls = 2
    /\ res.op = "footprint"
    /\ ret.op = "_manage_nodata"
    /\ prod.gml # NoGml
    /\ prod.jp2 # NoJp2
    /\ res.raised = ""
    /\ res.value = {p \in Pixels : p[2] < Width - 1}
    /\ prod.gml["DETFOO"].rows = {}


(***************************************************************************)
(* Properties of the condensed name (SpecNames)                            *)
(***************************************************************************)
\* C25: the condensed name of a product differs from the one of every
\* product of the same datatake time, tile and product type generated at
\* another time, and it is the same at every call.
C25_CondensedNameTellsApart ==
    (res.op = "_get_condensed_name" /\ res.raised = "") =>
        /\ res.args[1] # <<>> => res.value = res.args[1]
        /\ \A o \in NamedProducts :
              (/\ o.sensing_time = self.sensing_time
               /\ o.tile_name = self.tile_name
               /\ o.product_type = self.product_type
               /\ o.generation # self.generation)
                  => get_condensed_name(o).value # res.value


(***************************************************************************)
(* Properties of _read_band (SpecReadBand)                                 *)
(***************************************************************************)
\* C30: whatever bands are read, the file at the band path is never opened
\* for writing, files.copy runs at most once, and the CRS and transform of a
\* band with no georeferencing (baseline < 2.07, .jp2) go to its copy in the
\* band folder, which is the file read.
C30_GeocodesTheCopy ==
    /\ ~self.band.written
    /\ self.copies <= 1
    /\ self.copy.crs => self.copy.is_file
    /\ (/\ res.op = "_read_band"
        /\ res.args = <<"jp2">>
        /\ res.raised = ""
        /\ self.baseline < 207
        /\ ~self.band.crs) => (res.value = "copy" /\ self.copy.crs)

C30_Witness ==
    /\ res.op = "_read_band"
    /\ res.args = <<"jp2">>
    /\ res.raised = ""
    /\ res.value = "copy"
    /\ self.reads = 2
    /\ self.copies = 1
    /\ self.copy.crs
    /\ ~self.band.crs
    /\ self.mtd = "complete"

====
